---- MODULE Spec2Model ----
(***************************************************************************)
(* Verification model of YonatanE8/AlgoTrading, package FinancialAnalysis. *)
(*                                                                         *)
(* Part 1: the Smoother (analysis/smoothing.py) and the Forecaster         *)
(* (analysis/forecasting.py) as one state machine.  A caller constructs a  *)
(* Smoother and a Forecaster and then calls smooth, forecast, reset and    *)
(* description in any order.                                               *)
(*                                                                         *)
(* Numbers are exact rationals <<numerator, denominator>>; floating-point  *)
(* rounding is not modelled.  The fitted objects of statsmodels and numpy  *)
(* (ARIMA, SARIMAX, SimpleExpSmoothing, ExponentialSmoothing, Polynomial)  *)
(* are terms naming the class, the series they were fitted on and the      *)
(* fitting parameters; a value they produce at position t is the term      *)
(* <<model, t>>.  Python's None is the empty tuple and a present object x  *)
(* is the one-element tuple <<x>>.                                         *)
(*                                                                         *)
(* What the caller does: it constructs the Smoother first (if any) and     *)
(* passes it to a 'smoother' Forecaster; an 'arima' or 'sarimax'           *)
(* Forecaster is constructed without a Smoother.  Every call is given an   *)
(* array of float samples of its own, but for ForecastAgain (Part 10),     *)
(* which passes the array object of the call before.  A library fit either *)
(* converges or raises, which is the caller-visible outcome fit_ok of a    *)
(* call that fits.                                                         *)
(* Python asserts are enabled.                                             *)
(***************************************************************************)
EXTENDS Integers, Sequences, FiniteSets, TLC

\* ------------------------------------------------------------------ bounds
MaxLen == 3          \* longest series the caller passes
MaxHorizon == 2      \* largest forecast_horizon a Forecaster is built with
MaxWindow == 2       \* largest window length an 'avg' Smoother is built with
MaxIdx == 0          \* largest explicit prediction_start / prediction_end
MaxFits == 2         \* cap of the fit counter

\* ------------------------------------------------------- program constants
DefaultLength == 5   \* Smoother.__init__ default of length
DefaultPolyDegree == 2

\* ------------------------------------------------------------------ Option
None == <<>>
Some(x) == <<x>>

\* ------------------------------------------------------------ exact numbers
Abs(x) == IF x < 0 THEN -x ELSE x

RECURSIVE GCD(_, _)
GCD(a, b) == IF b = 0 THEN a ELSE GCD(b, a % b)

\* the rational n/d (d > 0) in lowest terms
Rat(n, d) == LET g == GCD(Abs(n), d) IN <<n \div g, d \div g>>

Zero == <<0, 1>>
RAdd(p, q) == Rat(p[1] * q[2] + q[1] * p[2], p[2] * q[2])
RSub(p, q) == Rat(p[1] * q[2] - q[1] * p[2], p[2] * q[2])
RDivInt(p, k) == Rat(p[1], p[2] * k)

RECURSIVE RSum(_)
RSum(s) == IF s = <<>> THEN Zero ELSE RAdd(Head(s), RSum(Tail(s)))

\* np.mean of a non-empty 1-D array
np_mean(s) == RDivInt(RSum(s), Len(s))

Min(a, b) == IF a < b THEN a ELSE b

\* the arrays a caller passes: float arrays of 1..MaxLen samples, for each
\* length the constant series 1.0, ..., 1.0 and the line 1.0, 2.0, ..., n
Flat(n) == [i \in 1..n |-> <<1, 1>>]
Line(n) == [i \in 1..n |-> <<i, 1>>]
Series == {Flat(n) : n \in 1..MaxLen} \cup {Line(n) : n \in 1..MaxLen}

\* a number produced by the program: a library term (or none) plus an offset
Num(r) == [sym |-> None, off |-> r]
Term(model, t) == [sym |-> <<model, t>>, off |-> Zero]
AddTo(v, r) == [sym |-> v.sym, off |-> RAdd(v.off, r)]

\* ------------------------------------------------------------------- state
VARIABLES
    smoother,     \* the Smoother instance, None before it is constructed
    forecaster,   \* the Forecaster instance, None before it is constructed
    time_series,  \* the array passed to the last call, as the call left it
    op,           \* name of the last call
    args,         \* arguments of the last call
    raised,       \* whether the last call raised
    result,       \* value the last call returned
    fits,         \* fits done by forecast calls since the last reset
    chain,        \* where the run is in "forecast A, reset, forecast B"
    analyzer,     \* the Analyzer instance, None before it is constructed
    scanner,      \* the Scanner instance, None before it is constructed
    cache,        \* the files of the cache directory, each a path and its data
    provider      \* the symbols the last call asked the quote provider for

vars == <<smoother, forecaster, time_series, op, args, raised, result,
          fits, chain, analyzer, scanner, cache, provider>>

\* the state of the Smoother and the Forecaster, and the state of the
\* Analyzer, the Scanner and the quote cache; a call on one side leaves the
\* objects of the other side alone
forecasting_vars == <<smoother, forecaster, time_series, fits, chain>>
analysis_vars == <<analyzer, scanner, cache, provider>>

SmootherMethods == {"avg", "exp", "holt_winter", "polyfit"}
ForecasterMethods == {"smoother", "arima", "sarimax"}

NoChain == [stage |-> "other", before |-> None, differs |-> FALSE]

Init ==
    /\ smoother = None
    /\ forecaster = None
    /\ time_series = None
    /\ op = "start"
    /\ args = <<>>
    /\ raised = FALSE
    /\ result = <<>>
    /\ fits = 0
    /\ chain = NoChain
    /\ analyzer = None
    /\ scanner = None
    /\ cache = {}
    /\ provider = <<>>

\* ---------------------------------------------------------------- Smoother
\* Smoother.__init__: the instance it builds, None when the assert fails
Smoother_init(method, length, optimize) ==
    IF method \notin SmootherMethods
    THEN None
    ELSE Some([method |-> method,
               length |-> length,
               alpha |-> <<"0.6", None>>,
               optimize |-> optimize,
               trend |-> "None",
               poly_degree |-> DefaultPolyDegree,
               poly |-> None,
               exp_smoother |-> None])

\* running_window_smoothing with mode='same' in place of mode='valid'
running_window_smoothing_same(S, ts) ==
    [k \in 1..Len(ts) |-> Num(RDivInt(RSum(ts), S.length))]

\* scipy.signal.convolve(time_series, window, mode='valid') with the
\* averaging window of 'length' ones over 'length': every full overlap of the
\* longer array with the shorter one
running_window_smoothing(S, ts) ==
    LET n == Len(ts)
        L == S.length
    IN  IF n >= L
        THEN [k \in 1..(n - L + 1) |->
                Num(RDivInt(RSum(SubSeq(ts, k, k + L - 1)), L))]
        ELSE [k \in 1..(L - n + 1) |-> Num(RDivInt(RSum(ts), L))]

\* the values a fitted model gives at positions first..last
ModelValues(model, first, last) ==
    [k \in 1..(last - first + 1) |-> Term(model, first + k - 1)]

\* Smoother._exponential_smoothing: the Smoother after the call
exponential_smoothing(S, ts) ==
    LET a == IF S.optimize THEN <<"smoothing_level", ts>> ELSE S.alpha
    IN  [S EXCEPT !.alpha = a,
                  !.exp_smoother = Some(<<"SimpleExpSmoothing", ts, a>>)]

\* Smoother._holt_winters_smoothing: the Smoother after the call
holt_winters_smoothing(S, ts) ==
    [S EXCEPT !.exp_smoother = Some(<<"ExponentialSmoothing", ts, S.trend>>)]

\* a variant that stores the polynomial in the other slot as well
fit_polyfit_both_slots(S, ts) == [S EXCEPT !.poly = Some(<<"Polynomial", ts, S.poly_degree>>), !.exp_smoother = Some(<<"Polynomial", ts, S.poly_degree>>)]

\* Smoother._fit_polyfit: the Smoother after the call
fit_polyfit(S, ts) ==
    [S EXCEPT !.poly = Some(<<"Polynomial", ts, S.poly_degree>>)]

\* Smoother.smooth: the Smoother after the call, whether the call raised, and
\* the smoothed series; fit_ok is whether the library's fit converges
smooth(S, ts, fit_ok) ==
    LET n == Len(ts) IN
    IF S.method = "avg"
    THEN [S |-> S, raised |-> FALSE, value |-> running_window_smoothing(S, ts)]
    ELSE IF ~fit_ok
    THEN [S |-> S, raised |-> TRUE, value |-> <<>>]
    ELSE IF S.method = "exp"
    THEN LET T == exponential_smoothing(S, ts)
         IN  [S |-> T, raised |-> FALSE,
              value |-> ModelValues(T.exp_smoother[1], 0, n - 1)]
    ELSE IF S.method = "holt_winter"
    THEN LET T == holt_winters_smoothing(S, ts)
         IN  [S |-> T, raised |-> FALSE,
              value |-> ModelValues(T.exp_smoother[1], 0, n - 1)]
    ELSE LET T == fit_polyfit(S, ts)
         IN  [S |-> T, raised |-> FALSE,
              value |-> ModelValues(T.poly[1], 0, n - 1)]

\* Smoother.description
Smoother_description(S) ==
    IF S.method = "avg" THEN <<"Average Window: Length = ", S.length>>
    ELSE IF S.method = "exp" THEN <<"Exponential Smoothing: alpha = ", S.alpha>>
    ELSE IF S.method = "holt_winter"
    THEN <<"Holt-Winter Smoothing: trend = ", S.trend>>
    ELSE <<"PolyFit: Order = ", S.poly_degree>>

\* whether the library's fit converges matters only to a call that fits
FitOutcomes(fitting) == IF fitting THEN BOOLEAN ELSE {TRUE}

\* the caller constructs the Smoother
NewSmoother(method, length, optimize) ==
    /\ UNCHANGED analysis_vars
    /\ smoother = None
    /\ forecaster = None
    /\ smoother' = Smoother_init(method, length, optimize)
    /\ op' = "Smoother"
    /\ args' = <<method, length, optimize>>
    /\ raised' = (Smoother_init(method, length, optimize) = None)
    /\ result' = <<>>
    /\ chain' = NoChain
    /\ time_series' = None
    /\ UNCHANGED <<forecaster, fits>>

\* the caller calls smoother.smooth(arr) (or smoother(arr))
Smooth(arr, fit_ok) ==
    /\ UNCHANGED analysis_vars
    /\ smoother # None
    /\ fit_ok \in FitOutcomes(smoother[1].method # "avg")
    /\ LET r == smooth(smoother[1], arr, fit_ok)
       IN  /\ smoother' = Some(r.S)
           /\ raised' = r.raised
           /\ result' = r.value
    /\ time_series' = arr
    /\ op' = "smooth"
    /\ args' = <<arr>>
    /\ chain' = NoChain
    /\ UNCHANGED <<forecaster, fits>>

\* the caller reads smoother.description
SmootherDescription ==
    /\ UNCHANGED analysis_vars
    /\ smoother # None
    /\ op' = "Smoother.description"
    /\ args' = <<>>
    /\ raised' = FALSE
    /\ result' = Smoother_description(smoother[1])
    /\ chain' = NoChain
    /\ time_series' = None
    /\ UNCHANGED <<smoother, forecaster, fits>>

\* -------------------------------------------------------------- Forecaster
\* Forecaster.__init__ without its second assert
Forecaster_init_unchecked(method, forecast_horizon, with_smoother, remove_mean) ==
    IF method \notin ForecasterMethods
    THEN None
    ELSE Some([method |-> method,
               forecast_horizon |-> forecast_horizon,
               smoother |-> with_smoother,
               arima_orders |-> <<1, 0, 1>>,
               sarimax_orders |-> <<1, 0, 1>>,
               sarimax_seasonal_order |-> <<0, 0, 0, 0>>,
               remove_mean |-> remove_mean,
               arima_model |-> None,
               sarimax_model |-> None,
               mean |-> Zero])

\* Forecaster.__init__: the instance it builds, None when an assert fails;
\* with_smoother is whether the caller passes its Smoother
Forecaster_init(method, forecast_horizon, with_smoother, remove_mean) ==
    IF method \notin ForecasterMethods
    THEN None
    ELSE IF method = "smoother" /\ ~with_smoother
    THEN None
    ELSE Some([method |-> method,
               forecast_horizon |-> forecast_horizon,
               smoother |-> with_smoother,
               arima_orders |-> <<1, 0, 1>>,
               sarimax_orders |-> <<1, 0, 1>>,
               sarimax_seasonal_order |-> <<0, 0, 0, 0>>,
               remove_mean |-> remove_mean,
               arima_model |-> None,
               sarimax_model |-> None,
               mean |-> Zero])

\* Forecaster._smooth_forecast_exp
smooth_forecast_exp(F, S, ts, fit_ok) ==
    LET n == Len(ts)
        fit == S.exp_smoother = None
        r == IF fit THEN smooth(S, ts, fit_ok)
             ELSE [S |-> S, raised |-> FALSE, value |-> <<>>]
    IN  IF r.raised
        THEN [S |-> r.S, raised |-> TRUE, value |-> <<>>, fitted |-> FALSE]
        ELSE [S |-> r.S, raised |-> FALSE, fitted |-> fit,
              value |-> ModelValues(r.S.exp_smoother[1], n,
                                    n + F.forecast_horizon - 1)]

\* Forecaster._smooth_forecast_poly
smooth_forecast_poly(F, S, ts, fit_ok) ==
    LET n == Len(ts)
        fit == S.poly = None
        r == IF fit THEN smooth(S, ts, fit_ok)
             ELSE [S |-> S, raised |-> FALSE, value |-> <<>>]
    IN  IF r.raised
        THEN [S |-> r.S, raised |-> TRUE, value |-> <<>>, fitted |-> FALSE]
        ELSE [S |-> r.S, raised |-> FALSE, fitted |-> fit,
              value |-> ModelValues(r.S.poly[1], n,
                                    n + F.forecast_horizon - 1)]

\* the loop of the 'avg' branch of Forecaster._smooth_forecast:
\* for i in range(i, stop): forecast.append(mean(time_series[i:] + forecast))
RECURSIVE avg_loop(_, _, _, _)
avg_loop(ts, fc, i, stop) ==
    IF i >= stop
    THEN fc
    ELSE avg_loop(ts,
                  Append(fc, np_mean(SubSeq(ts, i + 1, Len(ts)) \o fc)),
                  i + 1, stop)

\* the 'avg' branch of Forecaster._smooth_forecast
smooth_forecast_avg(F, ts) ==
    LET fc == avg_loop(ts, <<np_mean(ts)>>, 1,
                       Min(F.forecast_horizon, Len(ts) - 1))
    IN  [k \in 1..Len(fc) |-> Num(fc[k])]

\* Forecaster._smooth_forecast
smooth_forecast(F, S, ts, fit_ok) ==
    IF S.method \in {"exp", "holt_winter"}
    THEN smooth_forecast_exp(F, S, ts, fit_ok)
    ELSE IF S.method = "avg"
    THEN [S |-> S, raised |-> FALSE, fitted |-> FALSE,
          value |-> smooth_forecast_avg(F, ts)]
    ELSE smooth_forecast_poly(F, S, ts, fit_ok)

\* the [start, end] range of Forecaster._arima_forecast / _sarimax_forecast
prediction_range(F, ts, prediction_start, prediction_end) ==
    IF prediction_start = None \/ prediction_end = None
    THEN <<Len(ts), Len(ts) + F.forecast_horizon - 1>>
    ELSE <<prediction_start[1], prediction_end[1]>>

\* _arima_forecast that fits a model and does not keep it
arima_forecast_uncached(F, ts, prediction_start, prediction_end, fit_ok) ==
    LET rg == prediction_range(F, ts, prediction_start, prediction_end)
    IN  IF ~fit_ok
        THEN [F |-> F, raised |-> TRUE, value |-> <<>>, fitted |-> FALSE]
        ELSE [F |-> F, raised |-> FALSE, fitted |-> TRUE,
              value |-> ModelValues(<<"ARIMA", ts, F.arima_orders>>,
                                    rg[1], rg[2])]

\* Forecaster._arima_forecast
arima_forecast(F, ts, prediction_start, prediction_end, fit_ok) ==
    LET fit == F.arima_model = None
        G == IF fit /\ fit_ok
             THEN [F EXCEPT !.arima_model =
                                Some(<<"ARIMA", ts, F.arima_orders>>)]
             ELSE F
        rg == prediction_range(F, ts, prediction_start, prediction_end)
    IN  IF G.arima_model = None
        THEN [F |-> G, raised |-> TRUE, value |-> <<>>, fitted |-> FALSE]
        ELSE [F |-> G, raised |-> FALSE, fitted |-> fit,
              value |-> ModelValues(G.arima_model[1], rg[1], rg[2])]

\* _sarimax_forecast without the 'is None' test: every call fits
sarimax_forecast_refits(F, ts, prediction_start, prediction_end, fit_ok) ==
    LET G == [F EXCEPT !.sarimax_model =
                           Some(<<"SARIMAX", ts, F.sarimax_orders,
                                  F.sarimax_seasonal_order>>)]
        rg == prediction_range(F, ts, prediction_start, prediction_end)
    IN  IF ~fit_ok
        THEN [F |-> F, raised |-> TRUE, value |-> <<>>, fitted |-> FALSE]
        ELSE [F |-> G, raised |-> FALSE, fitted |-> TRUE,
              value |-> ModelValues(G.sarimax_model[1], rg[1], rg[2])]

\* Forecaster._sarimax_forecast
sarimax_forecast(F, ts, prediction_start, prediction_end, fit_ok) ==
    LET fit == F.sarimax_model = None
        G == IF fit /\ fit_ok
             THEN [F EXCEPT !.sarimax_model =
                                Some(<<"SARIMAX", ts, F.sarimax_orders,
                                       F.sarimax_seasonal_order>>)]
             ELSE F
        rg == prediction_range(F, ts, prediction_start, prediction_end)
    IN  IF G.sarimax_model = None
        THEN [F |-> G, raised |-> TRUE, value |-> <<>>, fitted |-> FALSE]
        ELSE [F |-> G, raised |-> FALSE, fitted |-> fit,
              value |-> ModelValues(G.sarimax_model[1], rg[1], rg[2])]

\* Forecaster.forecast on the array arr: the Forecaster, the Smoother and the
\* array after the call, whether it raised, what it returned and whether it
\* fitted a model.  S is the Smoother object (None when there is none).
forecast(F, S, arr, prediction_start, prediction_end, fit_ok) ==
    LET mean == IF F.remove_mean THEN np_mean(arr) ELSE F.mean
        ts == IF F.remove_mean
              THEN [i \in 1..Len(arr) |-> RSub(arr[i], mean)]
              ELSE arr
        F1 == [F EXCEPT !.mean = mean]
        plus(v) == [k \in 1..Len(v) |-> AddTo(v[k], mean)]
    IN  IF F.method = "smoother"
        THEN LET r == smooth_forecast(F1, S[1], ts, fit_ok)
             IN  [F |-> F1, S |-> Some(r.S), ts |-> ts, raised |-> r.raised,
                  value |-> plus(r.value), fitted |-> r.fitted]
        ELSE IF F.method = "arima"
        THEN LET r == arima_forecast(F1, ts, prediction_start,
                                     prediction_end, fit_ok)
             IN  [F |-> r.F, S |-> S, ts |-> ts, raised |-> r.raised,
                  value |-> plus(r.value), fitted |-> r.fitted]
        ELSE LET r == sarimax_forecast(F1, ts, prediction_start,
                                       prediction_end, fit_ok)
             IN  [F |-> r.F, S |-> S, ts |-> ts, raised |-> r.raised,
                  value |-> plus(r.value), fitted |-> r.fitted]

\* reset whose first test leaves 'holt_winter' out
reset_skips_holt_winter(F, S) ==
    [F |-> [F EXCEPT !.arima_model = None, !.sarimax_model = None],
     S |-> IF F.smoother
           THEN IF S[1].method \in {"avg", "exp"}
                THEN Some([S[1] EXCEPT !.exp_smoother = None])
                ELSE IF S[1].method = "polyfit"
                THEN Some([S[1] EXCEPT !.poly = None])
                ELSE S
           ELSE S]

\* reset that leaves the ARIMA and SARIMAX models in place
reset_keeps_arima(F, S) ==
    [F |-> F,
     S |-> IF F.smoother
           THEN IF S[1].method \in {"avg", "exp", "holt_winter"}
                THEN Some([S[1] EXCEPT !.exp_smoother = None])
                ELSE Some([S[1] EXCEPT !.poly = None])
           ELSE S]

\* Forecaster.reset: the Forecaster and the Smoother after the call
reset(F, S) ==
    [F |-> [F EXCEPT !.arima_model = None, !.sarimax_model = None],
     S |-> IF F.smoother
           THEN IF S[1].method \in {"avg", "exp", "holt_winter"}
                THEN Some([S[1] EXCEPT !.exp_smoother = None])
                ELSE Some([S[1] EXCEPT !.poly = None])
           ELSE S]

\* Forecaster.description: raised is the UnboundLocalError of a method that
\* neither 'if' covers
Forecaster_description(F, S) ==
    IF F.method = "smoother"
    THEN [raised |-> FALSE,
          value |-> <<"Smoothing based forecast: ",
                      Smoother_description(S[1])>>]
    ELSE IF F.method = "arima"
    THEN [raised |-> FALSE,
          value |-> <<"ARIMA based forecast: Orders = ", F.arima_orders>>]
    ELSE [raised |-> TRUE, value |-> <<>>]

\* whether the next forecast call finds no cached model and has one to fit
Unfit ==
    LET F == forecaster[1] IN
    IF F.method = "arima" THEN F.arima_model = None
    ELSE IF F.method = "sarimax" THEN F.sarimax_model = None
    ELSE IF smoother[1].method = "polyfit" THEN smoother[1].poly = None
    ELSE smoother[1].method # "avg" /\ smoother[1].exp_smoother = None

\* the caller constructs the Forecaster, passing the Smoother it built or none
NewForecaster(method, forecast_horizon, with_smoother, remove_mean) ==
    /\ UNCHANGED analysis_vars
    /\ forecaster = None
    /\ with_smoother => smoother # None
    /\ method \in {"arima", "sarimax"} => smoother = None
    /\ forecaster' = Forecaster_init(method, forecast_horizon, with_smoother,
                                     remove_mean)
    /\ op' = "Forecaster"
    /\ args' = <<method, forecast_horizon, with_smoother, remove_mean>>
    /\ raised' = (Forecaster_init(method, forecast_horizon, with_smoother,
                                  remove_mean) = None)
    /\ result' = <<>>
    /\ fits' = 0
    /\ chain' = NoChain
    /\ time_series' = None
    /\ UNCHANGED smoother

\* the caller calls forecaster.forecast(arr, prediction_start, prediction_end)
Forecast(arr, prediction_start, prediction_end, fit_ok) ==
    /\ UNCHANGED analysis_vars
    /\ forecaster # None
    /\ fit_ok \in FitOutcomes(Unfit)
    /\ forecaster[1].method = "smoother"
          => (prediction_start = None /\ prediction_end = None)
    /\ LET r == forecast(forecaster[1], smoother, arr, prediction_start,
                         prediction_end, fit_ok)
       IN  /\ forecaster' = Some(r.F)
           /\ smoother' = r.S
           /\ time_series' = r.ts
           /\ raised' = r.raised
           /\ result' = r.value
           /\ fits' = IF r.fitted THEN Min(fits + 1, MaxFits) ELSE fits
    /\ op' = "forecast"
    /\ args' = <<arr, prediction_start, prediction_end>>
    /\ chain' = IF chain.stage = "reset"
                THEN [stage |-> "forecast", before |-> None,
                      differs |-> chain.before \notin {None, Some(arr)}]
                ELSE NoChain

\* the caller calls forecaster.reset()
Reset ==
    /\ UNCHANGED analysis_vars
    /\ forecaster # None
    /\ LET r == reset(forecaster[1], smoother)
       IN  /\ forecaster' = Some(r.F)
           /\ smoother' = r.S
    /\ op' = "reset"
    /\ args' = <<>>
    /\ raised' = FALSE
    /\ result' = <<>>
    /\ fits' = 0
    /\ chain' = [stage |-> "reset",
                 before |-> IF op = "forecast" /\ ~raised
                            THEN Some(args[1]) ELSE None,
                 differs |-> FALSE]
    /\ time_series' = None

\* the caller reads forecaster.description
Description ==
    /\ UNCHANGED analysis_vars
    /\ forecaster # None
    /\ LET r == Forecaster_description(forecaster[1], smoother)
       IN  /\ raised' = r.raised
           /\ result' = r.value
    /\ op' = "description"
    /\ args' = <<>>
    /\ chain' = NoChain
    /\ time_series' = None
    /\ UNCHANGED <<smoother, forecaster, fits>>

\* ------------------------------------------------------------------ inputs
\* a method name no class supports stands for every unsupported name
SmootherArgs ==
    {<<m, l, o>> \in (SmootherMethods \cup {"median"}) \X
                     ((1..MaxWindow) \cup {DefaultLength}) \X BOOLEAN :
        /\ (m = "avg") = (l # DefaultLength)
        /\ o => m = "exp"}

ForecasterArgs ==
    (ForecasterMethods \cup {"prophet"}) \X (1..MaxHorizon) \X BOOLEAN
        \X BOOLEAN

\* prediction_start / prediction_end: None or an index; a range has
\* start <= end.  Only ARIMA and SARIMAX read them.
Index == {None} \cup {Some(i) : i \in 0..MaxIdx}

Ranges ==
    {<<s, e>> \in Index \X Index : (s # None /\ e # None) => s[1] <= e[1]}

Next ==
    \/ \E a \in SmootherArgs : NewSmoother(a[1], a[2], a[3])
    \/ \E a \in ForecasterArgs : NewForecaster(a[1], a[2], a[3], a[4])
    \/ \E arr \in Series, fit_ok \in BOOLEAN : Smooth(arr, fit_ok)
    \/ \E arr \in Series, rg \in Ranges, fit_ok \in BOOLEAN :
          Forecast(arr, rg[1], rg[2], fit_ok)
    \/ Reset
    \/ Description
    \/ SmootherDescription

Spec == Init /\ [][Next]_vars

\* -------------------------------------------------------------- properties
TheForecaster == forecaster[1]
TheSmoother == smoother[1]

\* the cached model of the Forecaster's configured method: the ARIMA or the
\* SARIMAX model, or the model its Smoother retains for the Smoother's method
CachedModel ==
    IF TheForecaster.method = "arima" THEN TheForecaster.arima_model
    ELSE IF TheForecaster.method = "sarimax" THEN TheForecaster.sarimax_model
    ELSE IF TheSmoother.method = "polyfit" THEN TheSmoother.poly
    ELSE TheSmoother.exp_smoother

Unfitted == CachedModel = None
Fitted == CachedModel # None

\* a Forecaster and a Smoother constructed anew with the configuration of the
\* present ones
ColdForecaster ==
    Forecaster_init(TheForecaster.method, TheForecaster.forecast_horizon,
                    TheForecaster.smoother, TheForecaster.remove_mean)[1]

ColdSmoother ==
    IF smoother = None
    THEN None
    ELSE Smoother_init(TheSmoother.method, TheSmoother.length,
                       TheSmoother.optimize)

\* C1: right after reset() the ARIMA model and the SARIMAX model are absent,
\* and so is the model the attached Smoother retains for its method
\* (exp_smoother for 'avg', 'exp' and 'holt_winter', poly for 'polyfit').
C1_ResetClearsFittedState ==
    op = "reset" =>
        /\ TheForecaster.arima_model = None
        /\ TheForecaster.sarimax_model = None
        /\ TheForecaster.smoother =>
              /\ TheSmoother.method \in {"avg", "exp", "holt_winter"}
                    => TheSmoother.exp_smoother = None
              /\ TheSmoother.method = "polyfit" => TheSmoother.poly = None

\* a reset() that follows a successful forecast of a Holt-Winters Forecaster
C1_Witness ==
    /\ op = "reset"
    /\ chain.before # None
    /\ TheForecaster.smoother
    /\ TheSmoother.method = "holt_winter"

\* C2: a successful forecast of B made right after reset() returns what a
\* newly constructed Forecaster (with a newly constructed Smoother) of the
\* same configuration returns for B, and leaves the Forecaster and the
\* Smoother in the state that cold call leaves them in.
C2_ForecastAfterResetIsCold ==
    (op = "forecast" /\ chain.stage = "forecast" /\ ~raised) =>
        LET cold == forecast(ColdForecaster, ColdSmoother, args[1], args[2],
                             args[3], TRUE)
        IN  /\ result = cold.value
            /\ forecaster = Some(cold.F)
            /\ smoother = cold.S

\* forecast A, reset(), forecast B with B different from A, a model fitted
C2_Witness ==
    /\ op = "forecast"
    /\ chain.stage = "forecast"
    /\ chain.differs
    /\ ~raised
    /\ Fitted

C4_FitOnceThenReuse ==
    /\ [](fits <= 1)
    /\ [][(forecaster # None /\ op' = "forecast" /\ Fitted) =>
            /\ CachedModel' = CachedModel
            /\ ~raised'
            /\ \A k \in 1..Len(result') :
                  result'[k].sym # None /\ result'[k].sym[1] = CachedModel[1]
         ]_vars

\* a forecast answered from a model that an earlier forecast call fitted on
\* another series
C4_Witness ==
    /\ op = "forecast"
    /\ ~raised
    /\ fits = 1
    /\ Fitted
    /\ CachedModel[1][2] # time_series
    /\ result[1].sym[1] = CachedModel[1]

\* C5: a forecast call without prediction_start and prediction_end returns
\* exactly forecast_horizon values, for every method and every series.
C5_ForecastHasHorizonLength ==
    (op = "forecast" /\ ~raised /\ args[2] = None /\ args[3] = None) =>
        Len(result) = TheForecaster.forecast_horizon

\* C6: an ARIMA or SARIMAX forecast covers the positions from the given
\* prediction_start (len(series) when none is given) to the given
\* prediction_end (len(series) + forecast_horizon - 1 when none is given).
C6_GivenBoundIsUsed ==
    (op = "forecast" /\ ~raised
        /\ TheForecaster.method \in {"arima", "sarimax"}) =>
        LET n == Len(args[1])
            s == IF args[2] # None THEN args[2][1] ELSE n
            e == IF args[3] # None THEN args[3][1]
                 ELSE n + TheForecaster.forecast_horizon - 1
        IN  s <= e =>
               /\ Len(result) = e - s + 1
               /\ \A k \in 1..Len(result) : result[k].sym[2] = s + k - 1

\* C7: a constructor call raises exactly when its configuration is invalid,
\* and then returns no instance; every instance that exists has a supported
\* method, and a 'smoother' Forecaster has its Smoother.
C7_ConfigErrorsFailAtConstruction ==
    /\ smoother # None => TheSmoother.method \in SmootherMethods
    /\ forecaster # None =>
          /\ TheForecaster.method \in ForecasterMethods
          /\ TheForecaster.method = "smoother"
                => (TheForecaster.smoother /\ smoother # None)
    /\ op = "Smoother" =>
          /\ raised <=> args[1] \notin SmootherMethods
          /\ raised => smoother = None
    /\ op = "Forecaster" =>
          /\ raised <=> (\/ args[1] \notin ForecasterMethods
                         \/ (args[1] = "smoother" /\ ~args[3]))
          /\ raised => forecaster = None

\* a 'smoother' Forecaster constructed without a Smoother: the call raised
C7_Witness ==
    /\ op = "Forecaster"
    /\ args[1] = "smoother"
    /\ ~args[3]
    /\ raised
    /\ forecaster = None

\* C8: reading Forecaster.description never fails and returns a label.
C8_DescriptionNeverFails ==
    op = "description" => (~raised /\ result # <<>>)

C10_AvgKeepsShape ==
    (op = "smooth" /\ ~raised /\ TheSmoother.method = "avg"
        /\ Len(args[1]) >= TheSmoother.length) =>
        Len(result) = Len(args[1])

\* ==========================================================================
\* Part 2: the Analyzer (analysis/analyzing.py).
\*
\* A float is an exact rational <<n, d>> with d > 0, or NaN == <<0, 0>>.
\* Quotes are prices, hence positive, so a return never divides by zero.
\* A (T, N) array is the sequence of its T rows, each a sequence of N
\* floats; a Python position p is the TLA+ position p + 1, and a rank or an
\* x-axis value keeps its Python value (0, 1, ...).  Values that need a
\* square root or a library fit (np.std, linregress, the sine terms of the
\* periodic signal) are terms naming the function and its arguments.
\*
\* SciPy is not pinned by setup.py, and interp1d(kind='previous',
\* fill_value='extrapolate') differs between releases for a point left of
\* the first sample: releases before 1.5 clip to the first sample and need
\* two samples, later releases set fill_value to (nan, y[-1]) and accept one
\* sample.  The build is a choice of every call that interpolates.
\* ==========================================================================

\* ------------------------------------------------------------------ bounds
MaxDays == 3         \* most trading days T of a queried period
MaxAssets == 2       \* most assets N the provider returns
MaxTrend == 2        \* largest trend_period_length

\* ------------------------------------------------------- program constants
TradingDays == 255   \* trading days per year
Percent == 100       \* the risk-free quote is a yield in percent

\* ------------------------------------------------------------------ floats
NaN == <<0, 0>>
isnan(x) == x = NaN
One == <<1, 1>>
Float(k) == <<k, 1>>

RMul(p, q) == Rat(p[1] * q[1], p[2] * q[2])
\* p / q for q # 0
RDiv(p, q) ==
    IF q[1] > 0 THEN Rat(p[1] * q[2], p[2] * q[1])
    ELSE Rat(-(p[1] * q[2]), p[2] * (-q[1]))
RLess(p, q) == p[1] * q[2] < q[1] * p[2]

FAdd(a, b) == IF isnan(a) \/ isnan(b) THEN NaN ELSE RAdd(a, b)
FSub(a, b) == IF isnan(a) \/ isnan(b) THEN NaN ELSE RSub(a, b)
FMul(a, b) == IF isnan(a) \/ isnan(b) THEN NaN ELSE RMul(a, b)
\* a / b of IEEE floats; x / 0 is modelled only for 0 / 0
FDiv(a, b) ==
    IF isnan(a) \/ isnan(b) \/ b[1] = 0 THEN NaN ELSE RDiv(a, b)

RECURSIVE FSum(_)
FSum(s) == IF s = <<>> THEN Zero ELSE FAdd(Head(s), FSum(Tail(s)))

RECURSIVE FProd(_)
FProd(s) == IF s = <<>> THEN One ELSE FMul(Head(s), FProd(Tail(s)))

\* np.mean along an axis: NaN (and a warning) for an empty slice
mean(s) == IF s = <<>> THEN NaN ELSE FDiv(FSum(s), Float(Len(s)))

\* np.std along an axis, a term
std(s) == <<"std", s>>

\* ------------------------------------------------------------------ arrays
Rows(Q) == Len(Q)
Cols(Q) == IF Q = <<>> THEN 0 ELSE Len(Q[1])
Column(Q, a) == [t \in 1..Len(Q) |-> Q[t][a]]
\* the array whose columns are the given 1-D arrays of one length
FromColumns(cs) ==
    IF cs = <<>> THEN <<>>
    ELSE [t \in 1..Len(cs[1]) |-> [a \in 1..Len(cs) |-> cs[a][t]]]
\* Q[-k:] for k >= 0; Q[-0:] is Q[0:], the whole of Q
LastRows(Q, k) ==
    IF k = 0 \/ k >= Len(Q) THEN Q ELSE SubSeq(Q, Len(Q) - k + 1, Len(Q))
HasNaN(Q) == \E t \in 1..Len(Q) : \E a \in 1..Len(Q[t]) : isnan(Q[t][a])
arange(n) == [i \in 1..n |-> i - 1]

\* ----------------------------------------------------------- interpolation
SciPyBuilds == {"clip", "nan"}

\* scipy.interpolate.interp1d(x, y, kind='previous',
\* fill_value='extrapolate'), evaluated at the points x_new; x is increasing
interp1d_previous(x, y, x_new, build) ==
    IF Len(x) < (IF build = "clip" THEN 2 ELSE 1)
    THEN [raised |-> TRUE, value |-> <<>>]
    ELSE [raised |-> FALSE,
          value |->
            [i \in 1..Len(x_new) |->
                LET k == Cardinality({j \in 1..Len(x) : x[j] <= x_new[i]})
                IN  IF k > 0 THEN y[k]
                    ELSE IF build = "clip" THEN y[1] ELSE NaN]]

\* Analyzer._interpoloate(x_axis, y, mode='previous')
interpoloate(x_axis, y, build) ==
    LET mask == [i \in 1..Len(y) |-> ~isnan(y[i])]
        y_without_nans == SelectSeq(y, LAMBDA v : ~isnan(v))
        not_nan_inds ==
            IF Len(mask) < Len(x_axis)
            THEN [i \in 1..Len(x_axis) |->
                     IF i <= Len(mask) THEN mask[i] ELSE FALSE]
            ELSE mask
        kept == {i \in 1..Len(not_nan_inds) : not_nan_inds[i]}
        \* x_axis[not_nan_inds], the kept positions in increasing order
        x == [j \in 1..Cardinality(kept) |->
                 x_axis[CHOOSE i \in kept :
                           Cardinality({h \in kept : h <= i}) = j]]
    IN  IF Len(not_nan_inds) # Len(x_axis)
        THEN \* a boolean index longer than the array: IndexError
             [raised |-> TRUE, value |-> <<>>]
        ELSE interp1d_previous(x, y_without_nans, x_axis, build)

\* ---------------------------------------------------------------- Analyzer
\* a variant that divides by the later quote
compute_returns_by_next(quotes) == [quotes |-> quotes, value |-> [t \in 1..(Len(quotes) - 1) |-> [a \in 1..Len(quotes[t]) |-> FDiv(FSub(quotes[t + 1][a], quotes[t][a]), quotes[t + 1][a])]]]

\* Analyzer._compute_returns: np.diff(quotes, axis=0) / quotes[:-1]; the
\* call builds new arrays and leaves its argument as it was
compute_returns(quotes) ==
    [quotes |-> quotes,
     value |->
        [t \in 1..(Len(quotes) - 1) |->
            [a \in 1..Len(quotes[t]) |->
                FDiv(FSub(quotes[t + 1][a], quotes[t][a]), quotes[t][a])]]]

\* Analyzer.__init__ from what get_multiple_assets and get_asset_data
\* return: the (T, N) quotes of the channel, the symbols loaded, and the
\* risk-free quotes.  None when the interpolation of a column raises.
Analyzer_init(quotes, valid_symbols, risk_free_asset, spectral_energy_threshold, trend_period_length, build) ==
    LET x_axis == arange(Rows(quotes))
        interpolated_quotes ==
            [i \in 1..Cols(quotes) |->
                interpoloate(x_axis, Column(quotes, i), build)]
        q == FromColumns([i \in 1..Cols(quotes) |->
                             interpolated_quotes[i].value])
        returns == compute_returns(q).value
    IN  IF \E i \in 1..Cols(quotes) : interpolated_quotes[i].raised
        THEN None
        ELSE Some(
          [spectral_energy_threshold |-> spectral_energy_threshold,
           trend_period_length |-> trend_period_length,
           n_assets |-> Len(valid_symbols),
           symbols_list |-> valid_symbols,
           quotes |-> q,
           returns |-> returns,
           cumulative_returns |->
               [a \in 1..Cols(q) |->
                   FProd([t \in 1..Len(returns) |->
                             FAdd(returns[t][a], One)])],
           risk_free_returns |->
               [t \in 1..(Len(risk_free_asset) - 1) |->
                   FDiv(risk_free_asset[t + 1],
                        Float(Percent * TradingDays))],
           spectral_components |-> None,
           spectral_components_freqs |-> None,
           spectral_components_energies |-> None])

\* Analyzer._analyze_sr (the property sr): one Sharpe ratio per asset, the
\* last value of the cumulative excess-return path over the path's np.std
analyze_sr(A, build) ==
    LET T1 == Len(A.returns)
        aligned ==
            IF Len(A.risk_free_returns) # T1
            THEN interpoloate(arange(T1), A.risk_free_returns, build)
            ELSE [raised |-> FALSE, value |-> A.risk_free_returns]
        risk_free_returns == aligned.value
        excess(t, a) == FSub(A.returns[t][a], risk_free_returns[t])
        \* np.cumprod(excess_returns + 1, 0)
        path(a) == [t \in 1..T1 |->
                       FProd([u \in 1..t |-> FAdd(excess(u, a), One)])]
    IN  IF aligned.raised \/ T1 = 0
        THEN [raised |-> TRUE, value |-> <<>>]
        ELSE [raised |-> FALSE,
              value |-> [a \in 1..Cols(A.returns) |->
                            <<"div", path(a)[T1], std(path(a))>>]]

\* Analyzer._compute_mean_annual_return (the property mean_annual_return)
compute_mean_annual_return(A) ==
    [a \in 1..Cols(A.quotes) |->
        FMul(Float(TradingDays), mean(Column(A.returns, a)))]

\* Analyzer._returns_emerging_trend(quotes): (trend_mean, trend_std)
returns_emerging_trend(A, quotes) ==
    LET period == LastRows(quotes, A.trend_period_length + 1)
        returns == compute_returns(period).value
    IN  [trend_mean |-> [a \in 1..Cols(quotes) |-> mean(Column(returns, a))],
         trend_std |-> [a \in 1..Cols(quotes) |-> std(Column(returns, a))]]

\* Analyzer.linear_regression_fit: linregress of the last
\* trend_period_length quotes of each asset against arange of that length;
\* it raises when fewer quotes than that exist
linear_regression_fit(A) ==
    LET L == A.trend_period_length
    IN  IF Rows(A.quotes) < L
        THEN [raised |-> TRUE, value |-> <<>>]
        ELSE [raised |-> FALSE,
              value |-> [a \in 1..Cols(A.quotes) |->
                  <<"linregress", arange(L), Column(LastRows(A.quotes, L), a)>>]]

\* np.argsort of a 1-D float array: ascending, NaN last, equal values in
\* the order of their positions; the result lists Python positions
LessKey(x, y) == ~isnan(x) /\ (isnan(y) \/ RLess(x, y))
SortsBefore(v, i, j) ==
    \/ LessKey(v[i], v[j])
    \/ ~LessKey(v[j], v[i]) /\ i < j
argsort(v) ==
    [k \in 1..Len(v) |->
        (CHOOSE i \in 1..Len(v) :
            Cardinality({j \in 1..Len(v) : SortsBefore(v, j, i)}) = k - 1) - 1]

\* the loop "for i, ind in enumerate(order): indices[ind] = i"
ranks_of(order) ==
    [ind \in 1..Len(order) |->
        (CHOOSE i \in 1..Len(order) : order[i] = ind - 1) - 1]

\* a variant that ranks in ascending order
top_k_performers_ascending(A) == ranks_of(argsort(A.cumulative_returns))

\* the property top_k_performers
top_k_performers(A) ==
    LET ascending == argsort(A.cumulative_returns)
        descending == [i \in 1..Len(ascending) |->
                          ascending[Len(ascending) + 1 - i]]
    IN  ranks_of(descending)

\* the property bottom_k_performers
bottom_k_performers(A) == ranks_of(argsort(A.cumulative_returns))

\* a variant with the periodicity analysis left in the body
analyze_with_periodicity(A, quotes, build) == [A |-> [A EXCEPT !.spectral_components_freqs = Some(<<>>), !.spectral_components_energies = Some(<<>>)], raised |-> FALSE, value |-> [key \in {"sr", "mean", "recent_trend_mean", "recent_trend_std", "periodicity", "linear_regression_fit", "top_k", "bottom_k"} |-> <<>>]]

\* Analyzer.analyze(quotes=None): the Analyzer after the call and the dict
\* of analysis results.  quotes is None or Some array; an Analyzer always
\* holds quotes, so the assert on the inputs passes.  The periodicity
\* analysis is commented out of the body.
analyze(A, quotes, build) ==
    LET q == IF quotes = None THEN A.quotes ELSE quotes[1]
        sr == analyze_sr(A, build)
        trend == returns_emerging_trend(A, q)
        fit == linear_regression_fit(A)
    IN  IF sr.raised \/ fit.raised
        THEN [A |-> A, raised |-> TRUE, value |-> <<>>]
        ELSE [A |-> A, raised |-> FALSE,
              value |->
                [key \in {"sr", "mean", "recent_trend_mean",
                          "recent_trend_std", "linear_regression_fit",
                          "top_k", "bottom_k"} |->
                  CASE key = "sr" -> sr.value
                    [] key = "mean" -> compute_mean_annual_return(A)
                    [] key = "recent_trend_mean" -> trend.trend_mean
                    [] key = "recent_trend_std" -> trend.trend_std
                    [] key = "linear_regression_fit" -> fit.value
                    [] key = "top_k" -> top_k_performers(A)
                    [] key = "bottom_k" -> bottom_k_performers(A)]]

\* ------------------------------------------------- spectral decomposition
\* scipy.signal.welch on T samples: nperseg is min(256, T), and the
\* one-sided spectrum has nperseg // 2 + 1 bins at k / nperseg
WelchBins(T) == (T \div 2) + 1
WelchFrequencies(T) == [k \in 1..WelchBins(T) |-> Rat(k - 1, T)]

\* a variant that also keeps a bin whose energy equals the threshold
passing_bins_or_equal(normalized, i, threshold) == SelectSeq(arange(Len(normalized)), LAMBDA k : ~isnan(normalized[k + 1][i]) /\ ~RLess(normalized[k + 1][i], threshold))

\* the bins of one asset whose normalized energy passes the threshold:
\* np.where(normalized_power_spectrum[:, i] > threshold)[0]
passing_bins(normalized, i, threshold) ==
    SelectSeq(arange(Len(normalized)),
              LAMBDA k : ~isnan(normalized[k + 1][i])
                          /\ RLess(threshold, normalized[k + 1][i]))

\* Analyzer._get_spectral_components(quotes), given the power spectrum that
\* welch estimates for the quotes: the Analyzer after the call and whether
\* the call raised
get_spectral_components(A, quotes, power_spectrum) ==
    LET frequencies == WelchFrequencies(Rows(quotes))
        total_energy == [i \in 1..Cols(power_spectrum) |->
                            FSum(Column(power_spectrum, i))]
        normalized_power_spectrum ==
            [k \in 1..Rows(power_spectrum) |->
                [i \in 1..Cols(power_spectrum) |->
                    FDiv(power_spectrum[k][i], total_energy[i])]]
        spectral_components ==
            [i \in 1..A.n_assets |->
                passing_bins(normalized_power_spectrum, i,
                             A.spectral_energy_threshold)]
        found == SelectSeq([i \in 1..A.n_assets |-> i],
                           LAMBDA i : Len(spectral_components[i]) > 0)
        spectral_components_freqs ==
            [j \in 1..Len(found) |->
                [h \in 1..Len(spectral_components[found[j]]) |->
                    frequencies[spectral_components[found[j]][h] + 1]]]
        spectral_components_energies ==
            [j \in 1..Len(found) |->
                [h \in 1..Len(spectral_components[found[j]]) |->
                    normalized_power_spectrum
                        [spectral_components[found[j]][h] + 1][found[j]]]]
    IN  IF \/ HasNaN(quotes)
           \/ HasNaN(normalized_power_spectrum)
           \/ A.n_assets > Cols(power_spectrum)
           \/ Len(found) # A.n_assets
        THEN [A |-> A, raised |-> TRUE]
        ELSE [A |-> [A EXCEPT
                       !.spectral_components_freqs =
                           Some(spectral_components_freqs),
                       !.spectral_components_energies =
                           Some(spectral_components_energies)],
              raised |-> FALSE]

\* numpy broadcasting of row counts: all equal, apart from counts of 1
Broadcasts(counts) == Cardinality(counts \ {1}) <= 1
Largest(counts) == CHOOSE n \in counts : \A m \in counts : m <= n

\* a variant without the assert on the cached decomposition
generate_periodic_signal_unchecked(A, quotes, x_len) == [raised |-> FALSE, value |-> <<"periodic_signal", <<x_len, Cols(quotes)>>, A.spectral_components_freqs, A.spectral_components_energies>>]

\* Analyzer.generate_periodic_signal(quotes, x_axis) for an x_axis of
\* x_len points: the assert on the cached decomposition, then the shapes of
\* the arrays it concatenates and multiplies; the signal is a term
generate_periodic_signal(A, quotes, x_len) ==
    LET L == A.trend_period_length
        T == Rows(quotes)
        N == Cols(quotes)
        n_first == L - 1
        n_second == IF N > L THEN N - L ELSE 0
        n_signals == Len(A.spectral_components_freqs[1])
        sums_rows == (n_first + n_second) * T
        std_rows == n_first * T + n_second
        std_cols == IF n_second > 0 THEN N ELSE 1
        rows == {std_rows, x_len, sums_rows}
    IN  IF \/ A.spectral_components_energies = None
           \/ A.spectral_components_freqs = None
        THEN [raised |-> TRUE, value |-> <<>>]
        ELSE IF \/ n_signals = 0
                \/ n_first + n_second = 0
                \/ n_first > 0 /\ n_second > 0 /\ N # 1
                \/ ~Broadcasts(rows)
                \/ ~Broadcasts({std_cols, n_signals})
        THEN [raised |-> TRUE, value |-> <<>>]
        ELSE [raised |-> FALSE,
              value |-> <<"periodic_signal",
                          <<Largest(rows), Largest({std_cols, n_signals})>>,
                          A.spectral_components_freqs[1],
                          A.spectral_components_energies[1]>>]

\* ------------------------------------------------------- Analyzer: actions
\* a = Analyzer(...): the provider returned quotes and the risk-free quotes
NewAnalyzer(quotes, risk_free_asset, threshold, trend_period_length, build) ==
    /\ analyzer = None
    /\ LET valid_symbols == [i \in 1..Cols(quotes) |-> <<"symbol", i>>]
           a == Analyzer_init(quotes, valid_symbols, risk_free_asset,
                              threshold, trend_period_length, build)
       IN  /\ analyzer' = a
           /\ raised' = (a = None)
    /\ op' = "Analyzer"
    /\ args' = <<>>
    /\ result' = <<>>
    /\ UNCHANGED <<forecasting_vars, scanner, cache, provider>>

\* Analyzer._interpoloate(np.arange(len(y)), y); a static method, which the
\* model calls before the Analyzer is constructed
Interpolate(y, build) ==
    /\ analyzer = None
    /\ LET r == interpoloate(arange(Len(y)), y, build)
       IN  /\ raised' = r.raised
           /\ result' = r.value
    /\ op' = "_interpoloate"
    /\ args' = <<y, build>>
    /\ UNCHANGED <<forecasting_vars, analysis_vars>>

\* a._compute_returns(quotes); args holds the array before and after
ComputeReturns(quotes) ==
    /\ analyzer # None
    /\ LET r == compute_returns(quotes)
       IN  /\ args' = <<quotes, r.quotes>>
           /\ result' = r.value
    /\ op' = "_compute_returns"
    /\ raised' = FALSE
    /\ UNCHANGED <<forecasting_vars, analysis_vars>>

\* a.sr
Sr(build) ==
    /\ analyzer # None
    /\ LET r == analyze_sr(analyzer[1], build)
       IN  /\ raised' = r.raised
           /\ result' = r.value
    /\ op' = "sr"
    /\ args' = <<>>
    /\ UNCHANGED <<forecasting_vars, analysis_vars>>

\* a.top_k_performers
TopK ==
    /\ analyzer # None
    /\ op' = "top_k_performers"
    /\ args' = <<>>
    /\ raised' = FALSE
    /\ result' = top_k_performers(analyzer[1])
    /\ UNCHANGED <<forecasting_vars, analysis_vars>>

\* a.bottom_k_performers
BottomK ==
    /\ analyzer # None
    /\ op' = "bottom_k_performers"
    /\ args' = <<>>
    /\ raised' = FALSE
    /\ result' = bottom_k_performers(analyzer[1])
    /\ UNCHANGED <<forecasting_vars, analysis_vars>>

\* a.analyze(quotes)
Analyze(quotes, build) ==
    /\ analyzer # None
    /\ LET r == analyze(analyzer[1], quotes, build)
       IN  /\ analyzer' = Some(r.A)
           /\ raised' = r.raised
           /\ result' = r.value
    /\ op' = "analyze"
    /\ args' = <<quotes>>
    /\ UNCHANGED <<forecasting_vars, scanner, cache, provider>>

\* a._get_spectral_components(a.quotes), welch estimating power_spectrum;
\* args holds the decomposition cached before the call
GetSpectralComponents(power_spectrum) ==
    /\ analyzer # None
    /\ LET r == get_spectral_components(analyzer[1], analyzer[1].quotes,
                                        power_spectrum)
       IN  /\ analyzer' = Some(r.A)
           /\ raised' = r.raised
    /\ op' = "_get_spectral_components"
    /\ args' = <<power_spectrum,
                 analyzer[1].spectral_components_freqs,
                 analyzer[1].spectral_components_energies>>
    /\ result' = <<>>
    /\ UNCHANGED <<forecasting_vars, scanner, cache, provider>>

\* a.generate_periodic_signal(a.quotes, x_axis) with x_len points
GeneratePeriodicSignal(x_len) ==
    /\ analyzer # None
    /\ LET r == generate_periodic_signal(analyzer[1], analyzer[1].quotes,
                                         x_len)
       IN  /\ raised' = r.raised
           /\ result' = r.value
    /\ op' = "generate_periodic_signal"
    /\ args' = <<x_len>>
    /\ UNCHANGED <<forecasting_vars, analysis_vars>>

\* -------------------------------------------------------- Analyzer: inputs
\* the quotes of one asset over T days: rising 1..T, falling T..1, or
\* rising with the first day missing
QuoteColumn(kind, T) ==
    [t \in 1..T |->
        CASE kind = 0 -> Float(t)
          [] kind = 1 -> Float(T + 1 - t)
          [] kind = 2 -> IF t = 1 THEN NaN ELSE Float(t)]

\* what get_multiple_assets returns for the channel: (T, N) arrays whose
\* columns go round the three kinds
ProviderQuotes ==
    {FromColumns([a \in 1..N |-> QuoteColumn((k + a) % 3, T)]) :
        T \in 2..MaxDays, N \in 1..MaxAssets, k \in 0..2}

\* the risk-free quotes, a constant yield: one day fewer, as many days, or
\* one day more than the assets have
RiskFreeQuotes(T) ==
    {[t \in 1..n |-> Float(Percent)] : n \in (T - 1)..(T + 1)}

Thresholds == {Rat(1, 4), Rat(1, 2)}

AnalyzerArgs ==
    {<<q, rf, th, L>> \in
        ProviderQuotes \X (UNION {RiskFreeQuotes(T) : T \in 2..MaxDays})
            \X Thresholds \X (2..MaxTrend) :
        Len(rf) \in (Rows(q) - 1)..(Rows(q) + 1)}

\* the 1-D arrays handed to the interpolation: up to MaxDays samples, each
\* 1.0, 2.0 or NaN
Samples == {NaN, Float(1), Float(2)}
GappySeries == UNION {[1..n -> Samples] : n \in 1..MaxDays}

\* the test's ramp 1, 2, ..., as a one-column array
Ramp == [t \in 1..(MaxDays + 1) |-> <<Float(t)>>]

\* the power of one asset in each bin: even, rising, one peak, or none
PowerColumn(kind, bins) ==
    [k \in 1..bins |->
        CASE kind = 0 -> Float(1)
          [] kind = 1 -> IF k = 1 THEN Float(1)
                         ELSE IF k = 2 THEN Float(3) ELSE Zero
          [] kind = 2 -> IF k = 2 THEN Float(1) ELSE Zero
          [] kind = 3 -> Zero]

\* the power spectra welch may estimate for N assets over T days: every
\* asset of one kind, or the first asset rising and the others even
Spectra(T, N) ==
    {FromColumns([a \in 1..N |-> PowerColumn(kind, WelchBins(T))]) :
        kind \in 0..3}
    \cup {FromColumns([a \in 1..N |->
              PowerColumn(IF a = 1 THEN 1 ELSE 0, WelchBins(T))])}

NextAnalyzer ==
    \/ \E a \in AnalyzerArgs, build \in SciPyBuilds :
          NewAnalyzer(a[1], a[2], a[3], a[4], build)
    \/ \E y \in GappySeries, build \in SciPyBuilds : Interpolate(y, build)
    \/ analyzer # None /\ \E quotes \in {analyzer[1].quotes, Ramp} :
          ComputeReturns(quotes)
    \/ \E build \in SciPyBuilds : Sr(build)
    \/ TopK
    \/ BottomK
    \/ \E build \in SciPyBuilds : Analyze(None, build)
    \/ analyzer # None /\ \E ps \in Spectra(Rows(analyzer[1].quotes),
                                            Cols(analyzer[1].quotes)) :
          GetSpectralComponents(ps)
    \/ analyzer # None /\ \E x_len \in
              {Rows(analyzer[1].quotes) - 1,
               (analyzer[1].trend_period_length - 1)
                  * Rows(analyzer[1].quotes)} :
          GeneratePeriodicSignal(x_len)

SpecAnalyzer == Init /\ [][NextAnalyzer]_vars

\* ---------------------------------------------------- Analyzer: properties
TheAnalyzer == analyzer[1]
Decomposition(A) ==
    <<A.spectral_components_freqs, A.spectral_components_energies>>
NoDecomposition == <<None, None>>

\* R is the return matrix of the NaN-free quotes Q: one row fewer, as many
\* columns, and R[t, a] * Q[t, a] = Q[t + 1, a] - Q[t, a]
ReturnsOf(R, Q) ==
    /\ Len(R) = Len(Q) - 1
    /\ \A t \in 1..Len(R) :
          /\ Len(R[t]) = Len(Q[t])
          /\ \A a \in 1..Len(R[t]) :
                /\ ~isnan(R[t][a])
                /\ RMul(R[t][a], Q[t][a]) = RSub(Q[t + 1][a], Q[t][a])

\* C11: the returns of a NaN-free (T, N) quote matrix are a (T-1, N) matrix
\* with returns[t, a] = (Q[t+1, a] - Q[t, a]) / Q[t, a], N is the number of
\* symbols the Analyzer uses, and computing returns leaves Q as it was.
C11_ReturnsOfQuotes ==
    /\ (analyzer # None /\ ~HasNaN(TheAnalyzer.quotes)) =>
          /\ ReturnsOf(TheAnalyzer.returns, TheAnalyzer.quotes)
          /\ Cols(TheAnalyzer.quotes) = Len(TheAnalyzer.symbols_list)
          /\ TheAnalyzer.n_assets = Len(TheAnalyzer.symbols_list)
    /\ (op = "_compute_returns" /\ ~HasNaN(args[1])) =>
          /\ ~raised
          /\ ReturnsOf(result, args[1])
          /\ args[2] = args[1]

C11_Witness ==
    /\ op = "_compute_returns"
    /\ args[1] = TheAnalyzer.quotes
    /\ ~HasNaN(args[1])
    /\ Rows(args[1]) = MaxDays
    /\ Cols(args[1]) = MaxAssets
    /\ result = TheAnalyzer.returns
    /\ \E t \in 1..Len(result) : \E a \in 1..MaxAssets :
          RLess(result[t][a], Zero)

\* the samples of y before position i that are not NaN
Earlier(y, i) == {j \in 1..(i - 1) : ~isnan(y[j])}
Valid(y) == {j \in 1..Len(y) : ~isnan(y[j])}
Latest(S) == CHOOSE j \in S : \A h \in S : h <= j
Earliest(S) == CHOOSE j \in S : \A h \in S : j <= h

\* C12: 'previous' interpolation of y over the positions 0..n-1, y having a
\* sample that is not NaN, returns n samples: every sample of y that is not
\* NaN unchanged, every NaN replaced by the nearest earlier sample, or by
\* the earliest sample when none precedes it.
C12_PreviousFillsEveryNaN ==
    (op = "_interpoloate" /\ Valid(args[1]) # {}) =>
        /\ ~raised
        /\ Len(result) = Len(args[1])
        /\ \A i \in 1..Len(args[1]) :
              result[i] =
                 IF ~isnan(args[1][i]) THEN args[1][i]
                 ELSE IF Earlier(args[1], i) # {}
                      THEN args[1][Latest(Earlier(args[1], i))]
                      ELSE args[1][Earliest(Valid(args[1]))]

\* the cumulative returns are numbers, no two of them equal
DistinctReturns(A) ==
    /\ \A a \in 1..A.n_assets : ~isnan(A.cumulative_returns[a])
    /\ \A a, b \in 1..A.n_assets :
          a # b => A.cumulative_returns[a] # A.cumulative_returns[b]
Best(A) ==
    CHOOSE a \in 1..A.n_assets : \A b \in 1..A.n_assets :
        ~RLess(A.cumulative_returns[a], A.cumulative_returns[b])

\* C13: for N assets with distinct cumulative returns the two rankings hold
\* one rank per asset, at the asset's position, top[a] = N - 1 - bottom[a],
\* and the asset with the largest return has top rank 0, bottom rank N - 1.
InverseRankings(top, bottom, A) ==
    /\ Len(top) = A.n_assets
    /\ Len(bottom) = A.n_assets
    /\ {top[a] : a \in 1..A.n_assets} = 0..(A.n_assets - 1)
    /\ \A a \in 1..A.n_assets : top[a] = A.n_assets - 1 - bottom[a]
    /\ top[Best(A)] = 0
    /\ bottom[Best(A)] = A.n_assets - 1
    /\ \A a, b \in 1..A.n_assets :
          RLess(A.cumulative_returns[a], A.cumulative_returns[b])
             => bottom[a] < bottom[b]

AnalysisKeys ==
    {"sr", "mean", "recent_trend_mean", "recent_trend_std",
     "linear_regression_fit", "top_k", "bottom_k"}

C15_PeriodicityKey ==
    (op = "analyze" /\ ~raised) =>
        \A key \in {"sr", "mean", "recent_trend_mean", "recent_trend_std",
                    "periodicity"} :
            /\ key \in DOMAIN result
            /\ Len(result[key]) = TheAnalyzer.n_assets

\* C16: a risk-free return series shorter or longer than the return matrix
\* is interpolated onto the matrix's axis, and the Sharpe ratio is returned
\* with one value per asset, without an error.
C16_MismatchRecovered ==
    (op = "sr" /\ Len(TheAnalyzer.risk_free_returns)
                     # Len(TheAnalyzer.returns)) =>
        /\ ~raised
        /\ Len(result) = TheAnalyzer.n_assets

\* C17: generate_periodic_signal raises unless a decomposition is cached;
\* a new Analyzer has none, and only a _get_spectral_components call that
\* returned caches one.
C17_SignalNeedsDecomposition ==
    /\ []((op = "generate_periodic_signal"
             /\ (\/ TheAnalyzer.spectral_components_freqs = None
                 \/ TheAnalyzer.spectral_components_energies = None))
            => raised)
    /\ []((op = "Analyzer" /\ analyzer # None)
            => Decomposition(TheAnalyzer) = NoDecomposition)
    /\ [][(op = "Analyzer" /\ op' = "generate_periodic_signal")
            => raised']_vars
    /\ [][(analyzer # None
             /\ Decomposition(analyzer'[1]) # Decomposition(analyzer[1]))
            => (op' = "_get_spectral_components" /\ ~raised')]_vars

C17_Witness ==
    /\ op = "generate_periodic_signal"
    /\ Decomposition(TheAnalyzer) = NoDecomposition
    /\ raised

\* the bins (Python positions) of asset i whose share of the asset's total
\* power is above the threshold th, in integers
BinsAbove(power_spectrum, i, th) ==
    LET total == FSum(Column(power_spectrum, i))[1]
    IN  {k \in 0..(Rows(power_spectrum) - 1) :
            power_spectrum[k + 1][i][1] * th[2] > th[1] * total}

\* C18: _get_spectral_components keeps per asset exactly the bins whose
\* normalized energy is above the threshold and raises when an asset keeps
\* none; it caches one component list per asset, or raises and leaves the
\* cached decomposition as it was.
C18_DecompositionAllOrNothing ==
    op = "_get_spectral_components" =>
        LET A == TheAnalyzer
            kept(i) == BinsAbove(args[1], i, A.spectral_energy_threshold)
            freq(k) == WelchFrequencies(Rows(A.quotes))[k + 1]
        IN  /\ (\E i \in 1..A.n_assets : kept(i) = {}) => raised
            /\ raised => Decomposition(A) = <<args[2], args[3]>>
            /\ ~raised =>
                  /\ A.spectral_components_freqs # None
                  /\ A.spectral_components_energies # None
                  /\ Len(A.spectral_components_freqs[1]) = A.n_assets
                  /\ Len(A.spectral_components_energies[1]) = A.n_assets
                  /\ \A i \in 1..A.n_assets :
                        LET fs == A.spectral_components_freqs[1][i]
                            es == A.spectral_components_energies[1][i]
                        IN  /\ Len(fs) = Cardinality(kept(i))
                            /\ Len(es) = Len(fs)
                            /\ {fs[h] : h \in 1..Len(fs)}
                                  = {freq(k) : k \in kept(i)}
                            /\ \A h \in 1..Len(es) :
                                  RLess(A.spectral_energy_threshold, es[h])

C18_Witness ==
    /\ op = "_get_spectral_components"
    /\ raised
    /\ ~HasNaN(TheAnalyzer.quotes)
    /\ args[2] # None
    /\ \E i \in 1..TheAnalyzer.n_assets :
          BinsAbove(args[1], i, TheAnalyzer.spectral_energy_threshold) = {}
    /\ \E i \in 1..TheAnalyzer.n_assets :
          BinsAbove(args[1], i, TheAnalyzer.spectral_energy_threshold) # {}

\* ==========================================================================
\* Part 3: the quote cache of get_multiple_assets
\* (stocks_io/data_queries.py, and the older src/io/data_queries.py that
\* tests/test_io.py imports), with dict_hash (utils/hashing.py).
\*
\* A Python value is a tagged tuple.  The bytes fed to SHA-256 are a
\* sequence of string tokens, a "," token between the joined elements of a
\* tuple; for the inputs drawn below two dicts have the same tokens
\* exactly when they have the same bytes, and SHA-256 is taken to be
\* injective: the hash is the token sequence.  A pickle file is a
\* record of its path <<directory, name>> and its data.  What the provider
\* answers for a symbol is 0 (no data, the load raises) or the version v of
\* its data, v + 1 trading days long.
\* ==========================================================================

\* ------------------------------------------------------------------ bounds
MaxVersion == 2      \* versions of its data the provider may answer with

\* ------------------------------------------------------ Python values, hash
PyStr(x) == <<"str", x>>
PyTuple(t) == <<"tuple", t>>
PyBool(b) == <<"bool", b>>
PyNone == <<"none">>

\* str(value)
str(v) ==
    CASE v[1] = "str" -> v[2]
      [] v[1] = "bool" -> IF v[2] THEN "True" ELSE "False"
      [] v[1] = "none" -> "None"

\* ','.join(parts), as tokens
RECURSIVE join(_)
join(parts) ==
    IF Len(parts) = 0 THEN <<>>
    ELSE IF Len(parts) = 1 THEN <<parts[1]>>
    ELSE <<parts[1], ",">> \o join(Tail(parts))

\* the keys of the input dicts in sorted order
KeyOrder ==
    <<"adjust_prices", "end_date", "quote_channels", "start_date",
      "symbol", "symbols_list">>

\* the bytes dict_hash feeds to the hash for one key or value
encoded_param(sub_item) ==
    IF sub_item[1] = "tuple" THEN join(sub_item[2]) ELSE <<str(sub_item)>>

RECURSIVE hash_items(_, _)
hash_items(dict_, keys) ==
    IF keys = <<>> THEN <<>>
    ELSE encoded_param(PyStr(Head(keys))) \o encoded_param(dict_[Head(keys)])
            \o hash_items(dict_, Tail(keys))

\* dict_hash(dict_): the items in key order, each key and value encoded
dict_hash(dict_) ==
    hash_items(dict_, SelectSeq(KeyOrder, LAMBDA k : k \in DOMAIN dict_))

\* ------------------------------------------------------------------ files
File(path, data) == [path |-> path, data |-> data]
isfile(files, path) == \E f \in files : f.path = path
load(files, path) == (CHOOSE f \in files : f.path = path).data
\* pickle.dump to an opened 'wb' file: the file is created or replaced
dump(files, path, data) ==
    {f \in files : f.path # path} \cup {File(path, data)}

\* ------------------------------------------------------------ data_queries
\* the signature of one asset's inputs (get_asset_data, _load_multiple_assets)
asset_signature(symbol, inputs) ==
    dict_hash([symbol |-> PyStr(symbol),
               start_date |-> PyStr(inputs.start_date),
               end_date |-> IF inputs.end_date = None THEN PyNone
                            ELSE PyStr(inputs.end_date[1]),
               quote_channels |-> PyTuple(inputs.quote_channels),
               adjust_prices |-> PyBool(inputs.adjust_prices)])

\* the signature of the inputs of get_multiple_assets
assets_signature(inputs) ==
    dict_hash([symbols_list |-> PyTuple(inputs.symbols_list),
               start_date |-> PyStr(inputs.start_date),
               end_date |-> IF inputs.end_date = None THEN PyNone
                            ELSE PyStr(inputs.end_date[1]),
               quote_channels |-> PyTuple(inputs.quote_channels),
               adjust_prices |-> PyBool(inputs.adjust_prices)])

\* a float among the values of a macro dict
PyFloat(x) == <<"float", x>>

\* _load_asset_data, given the provider's answer: the quote and the macro
\* of a symbol.  The closes of version v are 1.0, 2.0, ..., v + 1.  Of the
\* macro fields the model keeps sector, beta and high_52w; a field the
\* provider's info lacks is None, as the sector of every symbol but "A" is.
load_asset_data(symbol, version) ==
    [quote |-> [symbol |-> symbol, version |-> version, days |-> version + 1,
                last_close |-> Float(version + 1)],
     macro |-> [symbol |-> symbol, version |-> version,
                sector |-> IF symbol = "A" THEN PyStr("Technology")
                           ELSE PyNone,
                beta |-> PyFloat(Float(version)),
                high_52w |-> PyFloat(Float(2 * (version + 1)))]]

\* the loop of _load_multiple_assets over the symbols: the files, the
\* assets loaded and the symbols the provider was asked for
RECURSIVE load_loop(_, _, _, _, _)
load_loop(symbols, files, inputs, cache_path, answer) ==
    IF symbols = <<>>
    THEN [files |-> files, loaded |-> <<>>, queried |-> <<>>]
    ELSE
      LET symbol == Head(symbols)
          data_file == <<"single_assets", asset_signature(symbol, inputs)>>
          cached == cache_path # None /\ isfile(files, data_file)
          fails == ~cached /\ answer[symbol] = 0
          asset == IF cached THEN load(files, data_file)
                   ELSE load_asset_data(symbol, answer[symbol])
          files1 == IF cache_path # None /\ ~cached /\ ~fails
                    THEN dump(files, data_file, asset)
                    ELSE files
      IN  CHOOSE l \in
            {[files |-> rest.files,
              loaded |-> IF fails THEN rest.loaded
                         ELSE <<asset>> \o rest.loaded,
              queried |-> IF cached THEN rest.queried
                          ELSE <<symbol>> \o rest.queried] :
                 rest \in {load_loop(Tail(symbols), files1, inputs,
                                     cache_path, answer)}} : TRUE

\* int(np.median(lengths)) of a non-empty list
median(lengths) ==
    LET n == Len(lengths)
        \* the k-th smallest
        nth(k) == CHOOSE v \in {lengths[i] : i \in 1..n} :
                     /\ Cardinality({i \in 1..n : lengths[i] < v}) < k
                     /\ Cardinality({i \in 1..n : lengths[i] <= v}) >= k
    IN  IF n % 2 = 1 THEN nth((n + 1) \div 2)
        ELSE (nth(n \div 2) + nth(n \div 2 + 1)) \div 2

\* a variant that keeps every loaded asset and cuts to the shortest length
valid_assets_shortest(l) == IF l.loaded = <<>> THEN [files |-> l.files, queried |-> l.queried, raised |-> TRUE, value |-> <<>>] ELSE LET shortest == CHOOSE d \in {l.loaded[i].quote.days : i \in 1..Len(l.loaded)} : \A i \in 1..Len(l.loaded) : d <= l.loaded[i].quote.days IN [files |-> l.files, queried |-> l.queried, raised |-> FALSE, value |-> [quotes |-> [i \in 1..Len(l.loaded) |-> [l.loaded[i].quote EXCEPT !.days = shortest]], macros |-> [i \in 1..Len(l.loaded) |-> l.loaded[i].macro], valid_symbols |-> [i \in 1..Len(l.loaded) |-> l.loaded[i].quote.symbol]]]

\* the end of _load_multiple_assets: the assets at least as long as the
\* median length, cut to that length
valid_assets(l) ==
    LET dates == [i \in 1..Len(l.loaded) |-> l.loaded[i].quote.days]
        valid_dates_len == median(dates)
        valid == SelectSeq(l.loaded,
                           LAMBDA a : a.quote.days >= valid_dates_len)
    IN  IF l.loaded = <<>>
        THEN \* np.median of an empty list is nan, and int(nan) raises
             [files |-> l.files, queried |-> l.queried, raised |-> TRUE,
              value |-> <<>>]
        ELSE [files |-> l.files, queried |-> l.queried, raised |-> FALSE,
              value |->
                [quotes |-> [i \in 1..Len(valid) |->
                                [valid[i].quote
                                    EXCEPT !.days = valid_dates_len]],
                 macros |-> [i \in 1..Len(valid) |-> valid[i].macro],
                 valid_symbols |->
                    [i \in 1..Len(valid) |-> valid[i].quote.symbol]]]

\* _load_multiple_assets
load_multiple_assets(files, inputs, cache_path, answer) ==
    CHOOSE r \in
        {valid_assets(l) :
            l \in {load_loop(inputs.symbols_list, files, inputs,
                             cache_path, answer)}} : TRUE

\* pickle.dump of what was loaded, when there is a cache path
dump_assets(r, cache_path, data_file) ==
    IF cache_path # None /\ ~r.raised
    THEN [r EXCEPT !.files = dump(r.files, data_file, r.value)]
    ELSE r

\* get_multiple_assets of stocks_io/data_queries.py
get_multiple_assets(files, inputs, cache_path, answer) ==
    LET data_file == <<"", assets_signature(inputs)>>
    IN  IF cache_path # None /\ isfile(files, data_file)
        THEN [files |-> files, queried |-> <<>>, raised |-> FALSE,
              value |-> load(files, data_file)]
        ELSE CHOOSE out \in
                {dump_assets(r, cache_path, data_file) :
                    r \in {load_multiple_assets(files, inputs, cache_path,
                                                answer)}} : TRUE

\* get_multiple_assets of src/io/data_queries.py: os.path.join raises on a
\* None cache_path; with a cache_path the file is read if it exists, and
\* otherwise nothing is loaded and the return raises UnboundLocalError
legacy_get_multiple_assets(files, inputs, cache_path) ==
    LET data_file == <<"", assets_signature(inputs)>>
    IN  IF cache_path # None /\ isfile(files, data_file)
        THEN [files |-> files, queried |-> <<>>, raised |-> FALSE,
              value |-> [quotes |-> load(files, data_file).quotes,
                         macros |-> load(files, data_file).macros]]
        ELSE [files |-> files, queried |-> <<>>, raised |-> TRUE,
              value |-> <<>>]

\* ---------------------------------------------------------- cache: actions
\* args holds the inputs, the cache path, the provider's answers and the
\* data of the inputs' file before the call (None when there was no file)
CachedBefore(inputs) ==
    IF isfile(cache, <<"", assets_signature(inputs)>>)
    THEN Some(load(cache, <<"", assets_signature(inputs)>>))
    ELSE None

GetMultipleAssets(inputs, cache_path, answer) ==
    /\ \E r \in {get_multiple_assets(cache, inputs, cache_path, answer)} :
           /\ cache' = r.files
           /\ provider' = r.queried
           /\ raised' = r.raised
           /\ result' = r.value
    /\ op' = "get_multiple_assets"
    /\ args' = <<inputs, cache_path, answer, CachedBefore(inputs)>>
    /\ UNCHANGED <<forecasting_vars, analyzer, scanner>>

LegacyGetMultipleAssets(inputs, cache_path) ==
    /\ \E r \in {legacy_get_multiple_assets(cache, inputs, cache_path)} :
           /\ cache' = r.files
           /\ provider' = r.queried
           /\ raised' = r.raised
           /\ result' = r.value
    /\ op' = "src.io.get_multiple_assets"
    /\ args' = <<inputs, cache_path, <<>>, CachedBefore(inputs)>>
    /\ UNCHANGED <<forecasting_vars, analyzer, scanner>>

\* ----------------------------------------------------------- cache: inputs
Symbols == {"A", "B"}
CacheInputs ==
    {[symbols_list |-> sl, start_date |-> "2010-01-01",
      end_date |-> Some("2011-01-01"), quote_channels |-> <<"Close">>,
      adjust_prices |-> TRUE] : sl \in {<<"A">>, <<"A", "B">>}}
CachePaths == {None, Some("cache")}
Answers == [Symbols -> 0..MaxVersion]

NextCache ==
    \/ \E inputs \in CacheInputs, cache_path \in CachePaths,
          answer \in Answers :
          GetMultipleAssets(inputs, cache_path, answer)
    \/ \E inputs \in CacheInputs, cache_path \in CachePaths :
          LegacyGetMultipleAssets(inputs, cache_path)

SpecCache == Init /\ [][NextCache]_vars

\* --------------------------------------------------------- cache: property
\* the provider has data for a symbol of the inputs
Answered == \E i \in 1..Len(args[1].symbols_list) :
                args[3][args[1].symbols_list[i]] # 0

\* a call with a cache path whose inputs had no file stores what it returns
\* in the file named by the hash of the inputs; a call whose inputs had a
\* file returns the file's data and asks the provider nothing
CachedCall ==
    LET data_file == <<"", assets_signature(args[1])>>
    IN  IF args[4] = None
        THEN /\ ~raised
             /\ isfile(cache, data_file)
             /\ load(cache, data_file) = result
        ELSE /\ ~raised
             /\ result.quotes = args[4][1].quotes
             /\ result.macros = args[4][1].macros
             /\ provider = <<>>
             /\ load(cache, data_file) = args[4][1]

\* C19: with a cache path, the first get_multiple_assets call for given
\* inputs stores its result in the file named by the hash of the inputs, and
\* every later call with those inputs returns the quotes and fundamentals of
\* the first result from the file, without querying the provider; the files
\* of different inputs differ, and a file once written keeps its data.
C19_CacheRepeatsFirstResult ==
    /\ []((op = "get_multiple_assets" /\ args[2] # None
              /\ (args[4] # None \/ Answered)) => CachedCall)
    /\ []((op = "src.io.get_multiple_assets" /\ args[2] # None)
            => CachedCall)
    /\ \A i, j \in CacheInputs :
          i # j => assets_signature(i) # assets_signature(j)
    /\ [][\A f \in cache : f \in cache']_vars

\* the same for the get_multiple_assets of stocks_io/data_queries.py alone
CacheRepeatsFirstResult ==
    /\ []((op = "get_multiple_assets" /\ args[2] # None
              /\ (args[4] # None \/ Answered)) => CachedCall)
    /\ \A i, j \in CacheInputs :
          i # j => assets_signature(i) # assets_signature(j)
    /\ [][\A f \in cache : f \in cache']_vars

\* ==========================================================================
\* Part 4: the Scanner (analysis/scanning.py)
\*
\* A dict is a record of its keys in insertion order and the function from
\* its keys to their values; a range is a pair <<min, max>>.  The scanner is
\* None until constructed; its
\* constructor loads the assets through get_multiple_assets.
\* ==========================================================================

\* ------------------------------------------------------------------ bounds
MaxRange == 2        \* upper ends of the ranges given as criterions

\* ---------------------------------------------------------------- Scanner
viable_macro_criterions ==
    {"sector", "beta", "dividend_rate", "five_years_div_yield",
     "fiveYearAvgDividendYield", "trailing_price2earnings",
     "trailing_price2sales", "book2value_ratio", "profit_margins",
     "high_52w", "low_52w", "change_52w", "last_dividend_date",
     "earnings_quarterly_growth", "yield", "quarterly_revenue_growth",
     "gross_margins", "operating_margins", "revenue_growth",
     "analysts_recommendation", "earnings_growth", "roa", "roe", "3Y_beta",
     "3Y_avg_return", "5Y_avg_return", "debt2equity", "quick_ratio",
     "current_ratio", "enterprise2ebitda", "forward_eps", "trailing_eps",
     "short_ratio", "shortPercentOfFloat", "current_shorted_shares_ratio",
     "total_cash_per_share", "revenue_per_share", "target_low_price_ratio",
     "target_median_price_ratio", "target_mean_price_ratio",
     "percent_held_by_institutions", "percent_held_by_insiders",
     "price2earnings_growth_ratio", "trailing_div_yield",
     "trailing_div_rate", "div_rate", "payout_ratio"}

viable_quote_criterions ==
    {"sr", "mean", "recent_trend_mean", "recent_trend_std",
     "overall_period_return", "linear_regression_fit", "top_k", "bottom_k"}

\* {}
EmptyDict == [keys |-> <<>>, at |-> [k \in {} |-> <<>>]]

\* the dict with the given keys, inserted in that order, and their values
Dict(keys, at) == [keys |-> keys, at |-> at]

\* key in dict_
HasKey(dict_, key) == key \in DOMAIN dict_.at

\* dict_.update(other): a key dict_ has keeps its place and takes the new
\* value, the other keys are appended in the order of other
update(dict_, other) ==
    [keys |-> dict_.keys
                \o SelectSeq(other.keys, LAMBDA k : ~HasKey(dict_, k)),
     at |-> [k \in DOMAIN dict_.at \cup DOMAIN other.at |->
                IF k \in DOMAIN other.at THEN other.at[k] ELSE dict_.at[k]]]

\* Scanner(...): what get_multiple_assets returned (files, queried, raised,
\* value) and the scanner built from it, None when the load raised
Scanner_init(files, inputs, quote_channel, smoother_, analyzer_, cache_path, answer) ==
    CHOOSE out \in
      {[files |-> r.files, queried |-> r.queried, raised |-> r.raised,
        value |->
          IF r.raised THEN None
          ELSE Some([start_date |-> inputs.start_date,
                     quote_channel |-> quote_channel,
                     adjust_prices |-> inputs.adjust_prices,
                     cache_path |-> cache_path,
                     analyzer |-> analyzer_,
                     macros |-> r.value.macros,
                     symbols_list |-> r.value.valid_symbols,
                     quotes |-> r.value.quotes,
                     smoother |-> smoother_,
                     relevant_assets |-> <<>>,
                     macro_criterions |-> EmptyDict,
                     quote_criterions |-> EmptyDict])] :
         r \in {get_multiple_assets(files,
                    [inputs EXCEPT !.quote_channels = <<quote_channel>>],
                    cache_path, answer)}} : TRUE

\* a variant that stores the viable keys of a mapping before it rejects it
set_macro_criterions_key_by_key(S, criterions) == [S |-> [S EXCEPT !.macro_criterions = update(@, Dict(SelectSeq(criterions.keys, LAMBDA k : k \in viable_macro_criterions), [k \in DOMAIN criterions.at \cap viable_macro_criterions |-> criterions.at[k]]))], raised |-> \E key \in DOMAIN criterions.at : key \notin viable_macro_criterions]

\* Scanner.set_macro_criterions: the scanner after the call, and whether the
\* assertion failed
set_macro_criterions(S, criterions) ==
    IF \E key \in DOMAIN criterions.at : key \notin viable_macro_criterions
    THEN [S |-> S, raised |-> TRUE]
    ELSE [S |-> [S EXCEPT !.macro_criterions = update(@, criterions)],
          raised |-> FALSE]

\* Scanner.set_quote_criterions
set_quote_criterions(S, criterions) ==
    IF \E key \in DOMAIN criterions.at : key \notin viable_quote_criterions
    THEN [S |-> S, raised |-> TRUE]
    ELSE [S |-> [S EXCEPT !.quote_criterions = update(@, criterions)],
          raised |-> FALSE]

\* -------------------------------------------------------- Scanner: actions
NewScanner(inputs, quote_channel, cache_path, answer) ==
    /\ scanner = None
    /\ \E r \in {Scanner_init(cache, inputs, quote_channel, None, None,
                              cache_path, answer)} :
           /\ scanner' = r.value
           /\ cache' = r.files
           /\ provider' = r.queried
           /\ raised' = r.raised
    /\ op' = "Scanner"
    /\ args' = <<inputs, quote_channel, cache_path, answer>>
    /\ result' = None
    /\ UNCHANGED <<forecasting_vars, analyzer>>

\* args holds the mapping given and the scanner before the call
SetMacroCriterions(criterions) ==
    /\ scanner # None
    /\ \E r \in {set_macro_criterions(scanner[1], criterions)} :
           /\ scanner' = Some(r.S)
           /\ raised' = r.raised
    /\ op' = "set_macro_criterions"
    /\ args' = <<criterions, scanner[1]>>
    /\ result' = None
    /\ UNCHANGED <<forecasting_vars, analyzer, cache, provider>>

SetQuoteCriterions(criterions) ==
    /\ scanner # None
    /\ \E r \in {set_quote_criterions(scanner[1], criterions)} :
           /\ scanner' = Some(r.S)
           /\ raised' = r.raised
    /\ op' = "set_quote_criterions"
    /\ args' = <<criterions, scanner[1]>>
    /\ result' = None
    /\ UNCHANGED <<forecasting_vars, analyzer, cache, provider>>

\* --------------------------------------------------------- Scanner: inputs
\* a viable macro criterion, a viable quote criterion, and the key of
\* tests/test_scanner.py that is neither
CriterionKeys == <<"beta", "sr", "some_false_criterion">>
CriterionRanges == {<<0, hi>> : hi \in 1..MaxRange}
\* the dicts over some of these keys, written in this order
Criterions ==
    UNION {{Dict(SelectSeq(CriterionKeys, LAMBDA k : k \in keys), at) :
               at \in [keys -> CriterionRanges]} :
           keys \in SUBSET {CriterionKeys[i] : i \in 1..Len(CriterionKeys)}}
\* the provider's answers at construction: each symbol absent or present
ScannerAnswers == {a \in Answers : \A sym \in Symbols : a[sym] <= 1}
ScannerInputs == {i \in CacheInputs : Len(i.symbols_list) = 2}

NextScanner ==
    \/ \E inputs \in ScannerInputs, cache_path \in CachePaths,
          answer \in ScannerAnswers :
          NewScanner(inputs, "Close", cache_path, answer)
    \/ \E criterions \in Criterions : SetMacroCriterions(criterions)
    \/ \E criterions \in Criterions : SetQuoteCriterions(criterions)

SpecScanner == Init /\ [][NextScanner]_vars

\* ------------------------------------------------------ Scanner: property
\* a key of the mapping given is not viable for the setter called
Rejected ==
    \/ /\ op = "set_macro_criterions"
       /\ \E key \in DOMAIN args[1].at : key \notin viable_macro_criterions
    \/ /\ op = "set_quote_criterions"
       /\ \E key \in DOMAIN args[1].at : key \notin viable_quote_criterions

\* C20: set_macro_criterions and set_quote_criterions raise exactly when a
\* key of the mapping is not viable for them, and then the scanner is as it
\* was before the call: neither stored mapping gained or changed a key.
C20_RejectedMappingStoresNothing ==
    op \in {"set_macro_criterions", "set_quote_criterions"} =>
        /\ raised <=> Rejected
        /\ Rejected =>
              /\ scanner[1].macro_criterions = args[2].macro_criterions
              /\ scanner[1].quote_criterions = args[2].quote_criterions
              /\ scanner[1] = args[2]

\* set_macro_criterions rejected a mapping with a viable and a non-viable
\* key, and the scanner still holds the other range it held for the viable key
C20_Witness ==
    /\ op = "set_macro_criterions"
    /\ raised
    /\ DOMAIN args[1].at = {"beta", "some_false_criterion"}
    /\ DOMAIN scanner[1].macro_criterions.at = {"beta"}
    /\ scanner[1].macro_criterions.at["beta"] # args[1].at["beta"]
    /\ DOMAIN scanner[1].quote_criterions.at = {"sr"}

\* ==========================================================================
\* Part 5: _load_multiple_assets on its own (stocks_io/data_queries.py)
\*
\* Three symbols, requested out of alphabetical order, so that the lengths
\* of the loaded series can have a median above their minimum.
\* ==========================================================================

\* args holds the inputs, the cache path, the provider's answers and the
\* files before the call
LoadMultipleAssets(inputs, cache_path, answer) ==
    /\ \E r \in {load_multiple_assets(cache, inputs, cache_path, answer)} :
           /\ cache' = r.files
           /\ provider' = r.queried
           /\ raised' = r.raised
           /\ result' = r.value
    /\ op' = "_load_multiple_assets"
    /\ args' = <<inputs, cache_path, answer, cache>>
    /\ UNCHANGED <<forecasting_vars, analyzer, scanner>>

LoadSymbols == {"A", "B", "C"}
LoadInputs ==
    {[symbols_list |-> sl, start_date |-> "2010-01-01",
      end_date |-> Some("2011-01-01"), quote_channels |-> <<"Close">>,
      adjust_prices |-> TRUE] : sl \in {<<"C", "A", "B">>}}
LoadAnswers == [LoadSymbols -> 0..MaxVersion]

NextLoad ==
    \E inputs \in LoadInputs, cache_path \in CachePaths,
       answer \in LoadAnswers :
       LoadMultipleAssets(inputs, cache_path, answer)

SpecLoad == Init /\ [][NextLoad]_vars

\* the number of days of the data the call can load for a symbol, 0 when it
\* cannot: from the symbol's file when there is a cache path and the file
\* exists, and from the provider otherwise
DaysLoaded(symbol) ==
    LET data_file == <<"single_assets", asset_signature(symbol, args[1])>>
    IN  IF args[2] # None /\ isfile(args[4], data_file)
        THEN load(args[4], data_file).quote.days
        ELSE IF args[3][symbol] = 0 THEN 0 ELSE args[3][symbol] + 1

\* the requested symbols the call could load, in request order
LoadedSymbols == SelectSeq(args[1].symbols_list, LAMBDA sym : DaysLoaded(sym) > 0)

\* the result has one quote column and one fundamentals entry per valid
\* symbol, in the order of the valid symbols
OneColumnEach ==
    /\ Len(result.quotes) = Len(result.valid_symbols)
    /\ Len(result.macros) = Len(result.valid_symbols)
    /\ \A i \in 1..Len(result.valid_symbols) :
          /\ result.quotes[i].symbol = result.valid_symbols[i]
          /\ result.macros[i].symbol = result.valid_symbols[i]

MedianLength ==
    median([i \in 1..Len(LoadedSymbols) |-> DaysLoaded(LoadedSymbols[i])])

compute_overall_period_return(A) ==
    LET recent_quotes == LastRows(A.quotes, A.trend_period_length - 1)
    IN  [recent_quotes |-> recent_quotes,
         value |->
            [a \in 1..Cols(A.quotes) |->
                FDiv(FSub(recent_quotes[Len(recent_quotes)][a],
                          recent_quotes[1][a]),
                     recent_quotes[1][a])]]

\* a.overall_period_return; args holds the slice of recent quotes
OverallPeriodReturn ==
    /\ analyzer # None
    /\ \E r \in {compute_overall_period_return(analyzer[1])} :
           /\ result' = r.value
           /\ args' = <<r.recent_quotes>>
    /\ op' = "overall_period_return"
    /\ raised' = FALSE
    /\ UNCHANGED <<forecasting_vars, analysis_vars>>

\* constructions with trend periods from one day on
TrendArgs ==
    {<<q, rf, L>> \in
        ProviderQuotes \X (UNION {RiskFreeQuotes(T) : T \in 2..MaxDays})
            \X (1..MaxTrend) :
        Len(rf) \in (Rows(q) - 1)..(Rows(q) + 1)}

\* the quote matrices a caller may hand to analyze: as many assets as the
\* Analyzer has
CallerQuotes(A) == {q \in ProviderQuotes : Cols(q) = Cols(A.quotes)}

NextAnalyze ==
    \/ \E a \in TrendArgs, build \in SciPyBuilds :
          NewAnalyzer(a[1], a[2], Rat(1, 4), a[3], build)
    \/ \E build \in SciPyBuilds : Analyze(None, build)
    \/ analyzer # None /\ \E quotes \in CallerQuotes(analyzer[1]),
                             build \in SciPyBuilds :
          Analyze(Some(quotes), build)
    \/ OverallPeriodReturn

SpecAnalyze == Init /\ [][NextAnalyze]_vars

\* an Analyzer constructed on the quotes Q in place of those of A
AnalyzerOn(A, Q) ==
    LET returns == compute_returns(Q).value
    IN  [A EXCEPT !.quotes = Q,
                  !.returns = returns,
                  !.cumulative_returns =
                      [a \in 1..Cols(Q) |->
                          FProd([t \in 1..Len(returns) |->
                                    FAdd(returns[t][a], One)])]]

\* the analysis holds the statistics of the quotes Q
AnalysisOf(Q) ==
    LET AQ == AnalyzerOn(TheAnalyzer, Q)
    IN  /\ result["mean"] = compute_mean_annual_return(AQ)
        /\ result["recent_trend_mean"]
              = returns_emerging_trend(AQ, Q).trend_mean
        /\ result["recent_trend_std"]
              = returns_emerging_trend(AQ, Q).trend_std
        /\ result["linear_regression_fit"] = linear_regression_fit(AQ).value
        /\ result["top_k"] = top_k_performers(AQ)
        /\ result["bottom_k"] = bottom_k_performers(AQ)
        /\ \E build \in SciPyBuilds : result["sr"] = analyze_sr(AQ, build).value

\* C22: analyze(quotes=Q) returns the statistics of Q (sr, mean, the recent
\* trend statistics, linear_regression_fit, top_k and bottom_k, with the
\* returns recomputed from Q), and analyze() those of the quotes of the
\* constructor.  Checked for Q at least as long as the trend period.
C22_AnalyzesGivenQuotes ==
    (op = "analyze" /\ ~raised) =>
        /\ args[1] = None => AnalysisOf(TheAnalyzer.quotes)
        /\ (/\ args[1] # None
            /\ Rows(args[1][1]) >= TheAnalyzer.trend_period_length)
              => AnalysisOf(args[1][1])

\* what holds of analyze(quotes=Q): only the recent trend statistics are
\* those of Q, every other entry is that of the quotes of the constructor
AnalyzesTrendOfGivenQuotes ==
    (op = "analyze" /\ ~raised /\ args[1] # None) =>
        LET A == TheAnalyzer
            Q == args[1][1]
        IN  /\ result["mean"] = compute_mean_annual_return(A)
            /\ result["recent_trend_mean"]
                  = returns_emerging_trend(A, Q).trend_mean
            /\ result["recent_trend_std"]
                  = returns_emerging_trend(A, Q).trend_std
            /\ result["linear_regression_fit"] = linear_regression_fit(A).value
            /\ result["top_k"] = top_k_performers(A)
            /\ result["bottom_k"] = bottom_k_performers(A)

\* C24: for every trend period L >= 1 and quotes of at least L days, the
\* overall period return is taken over a slice of exactly the L - 1 most
\* recent days, and is per asset (last - first) / first over that slice.
C24_OverallReturnWindow ==
    (/\ op = "overall_period_return"
     /\ Rows(TheAnalyzer.quotes) >= TheAnalyzer.trend_period_length) =>
        /\ Len(args[1]) = TheAnalyzer.trend_period_length - 1
        /\ \A t \in 1..Len(args[1]) :
              args[1][t] = TheAnalyzer.quotes[
                               Rows(TheAnalyzer.quotes) - Len(args[1]) + t]
        /\ \A a \in 1..Cols(TheAnalyzer.quotes) :
              result[a] = FDiv(FSub(args[1][Len(args[1])][a], args[1][1][a]),
                               args[1][1][a])

\* the same for trend periods of two days and more
OverallReturnWindowFromTwo ==
    (/\ op = "overall_period_return"
     /\ TheAnalyzer.trend_period_length >= 2
     /\ Rows(TheAnalyzer.quotes) >= TheAnalyzer.trend_period_length) =>
        /\ Len(args[1]) = TheAnalyzer.trend_period_length - 1
        /\ \A t \in 1..Len(args[1]) :
              args[1][t] = TheAnalyzer.quotes[
                               Rows(TheAnalyzer.quotes) - Len(args[1]) + t]
        /\ \A a \in 1..Cols(TheAnalyzer.quotes) :
              result[a] = FDiv(FSub(args[1][Len(args[1])][a], args[1][1][a]),
                               args[1][1][a])

\* ==========================================================================
\* Part 7: a Smoother used on its own (analysis/smoothing.py): no Forecaster
\* fits or clears its models
\* ==========================================================================

NextSmoother ==
    \/ \E a \in SmootherArgs : NewSmoother(a[1], a[2], a[3])
    \/ \E arr \in Series, fit_ok \in BOOLEAN : Smooth(arr, fit_ok)
    \/ SmootherDescription

SpecSmoother == Init /\ [][NextSmoother]_vars

\* the models a Smoother retains, each with the slot that holds it
Retained(S) ==
    {m \in {<<"poly", S.poly>>, <<"exp_smoother", S.exp_smoother>>} :
        m[2] # None}

\* the library class whose fit the method keeps
ModelKind(method) ==
    CASE method = "exp" -> "SimpleExpSmoothing"
      [] method = "holt_winter" -> "ExponentialSmoothing"
      [] method = "polyfit" -> "Polynomial"
      [] OTHER -> "none"

\* S retains exactly one model, in the slot and of the kind of its method,
\* fitted on the series ts
RetainsModelOf(S, ts) ==
    /\ Cardinality(Retained(S)) = 1
    /\ IF S.method = "polyfit" THEN S.poly # None ELSE S.exp_smoother # None
    /\ \A m \in Retained(S) :
          m[2][1][1] = ModelKind(S.method) /\ m[2][1][2] = ts

\* at most one model, none for 'avg', and none from the constructor
AtMostOneModel ==
    /\ [](smoother # None =>
             /\ Cardinality(Retained(TheSmoother)) <= 1
             /\ TheSmoother.method = "avg" => Retained(TheSmoother) = {})
    /\ []((op = "Smoother" /\ ~raised) => Retained(TheSmoother) = {})

\* C23: a Smoother retains at most one fitted model: none before its first
\* smooth call and none ever for 'avg'; after every smooth call with method
\* 'exp', 'holt_winter' or 'polyfit' it retains exactly one model, of the
\* kind of its method, fitted on the series passed to that call.
C23_OneModelOfLatestSeries ==
    /\ AtMostOneModel
    /\ []((op = "smooth" /\ TheSmoother.method # "avg")
             => RetainsModelOf(TheSmoother, args[1]))

\* C23, as the code has it: the same, for the smooth calls that return; a
\* smooth call that raises, and every step that is not a smooth call, leaves
\* the retained models as they were, so the model retained is the one fitted
\* on the series of the latest smooth call that returned.
C23_OneModelOfLatestFittedSeries ==
    /\ AtMostOneModel
    /\ []((op = "smooth" /\ ~raised /\ TheSmoother.method # "avg")
             => RetainsModelOf(TheSmoother, args[1]))
    /\ [][(smoother # None /\ (op' # "smooth" \/ raised'))
             => Retained(smoother'[1]) = Retained(smoother[1])]_vars

\* a 'holt_winter' smooth call returned, and the Smoother retains the one
\* model fitted on the series of that call
C23_Witness ==
    /\ op = "smooth"
    /\ ~raised
    /\ TheSmoother.method = "holt_winter"
    /\ args[1] = Line(2)
    /\ RetainsModelOf(TheSmoother, Line(2))

\* ==========================================================================
\* Part 8: the Scanner's test of the quote criterions (analysis/scanning.py)
\*
\* A range criterion is a pair of floats, a top_k / bottom_k criterion an
\* integer bound on the rank, and a linear_regression_fit criterion a triple
\* of bounds on slope, intercept and R^2, each None or a float.
\* ==========================================================================

\* Scanner._test_quote_criterion from the criterion 'keys' on: the loop over
\* the stored criterions in the order of the dict; when the call raises,
\* the value is the name of the exception
RECURSIVE test_quote_criterions_from(_, _, _)
test_quote_criterions_from(keys, quote_criterions, asset_quote_stats) ==
    IF keys = <<>>
    THEN [raised |-> FALSE, value |-> TRUE]
    ELSE
      LET criterion == Head(keys)
          bound == quote_criterions.at[criterion]
          stat == asset_quote_stats.at[criterion]
      IN  IF ~HasKey(asset_quote_stats, criterion)
          THEN [raised |-> TRUE, value |-> "KeyError"]
          ELSE IF criterion = "linear_regression_fit"
          THEN IF Len(bound) # 3
               THEN [raised |-> TRUE, value |-> "AssertionError"]
               ELSE [raised |-> FALSE,
                     value |-> ~\E j \in 1..3 :
                                   bound[j] # None /\ RLess(stat[j], bound[j])]
          ELSE IF criterion \in {"top_k", "bottom_k"}
          THEN [raised |-> FALSE, value |-> stat < bound]
          ELSE IF RLess(stat, bound[1]) \/ RLess(bound[2], stat)
          THEN [raised |-> FALSE, value |-> FALSE]
          ELSE test_quote_criterions_from(Tail(keys), quote_criterions,
                                          asset_quote_stats)

\* Scanner._test_quote_criterion
test_quote_criterion(S, asset_quote_stats) ==
    test_quote_criterions_from(S.quote_criterions.keys, S.quote_criterions,
                               asset_quote_stats)

\* scanner._test_quote_criterion(asset_quote_stats); args holds the stats
TestQuoteCriterion(asset_quote_stats) ==
    /\ scanner # None
    /\ \E r \in {test_quote_criterion(scanner[1], asset_quote_stats)} :
           /\ raised' = r.raised
           /\ result' = r.value
    /\ op' = "_test_quote_criterion"
    /\ args' = <<asset_quote_stats>>
    /\ UNCHANGED <<forecasting_vars, analysis_vars>>

\* ------------------------------------------------------ quote test: inputs
\* the sequences without repetition over a set of keys
RECURSIVE Orders(_)
Orders(keys) ==
    IF keys = {} THEN {<<>>}
    ELSE UNION {{<<k>> \o rest : rest \in Orders(keys \ {k})} : k \in keys}

\* one criterion of each form: sr within [0, 1], a rank below 1, a slope of
\* at least 1
QuoteBounds ==
    [sr |-> <<Float(0), Float(1)>>,
     top_k |-> 1,
     linear_regression_fit |-> <<Float(1), None, None>>]

\* the dicts of some of these criterions, in every order of writing them
QuoteCriterions ==
    UNION {{Dict(keys, [k \in ks |-> QuoteBounds[k]]) : keys \in Orders(ks)} :
           ks \in SUBSET DOMAIN QuoteBounds}

\* the statistics of one asset: sr inside or above the range, rank 0 or 1,
\* slope 1 or 0
QuoteStats ==
    {Dict(<<"sr", "top_k", "linear_regression_fit">>,
          [sr |-> Float(sr), top_k |-> rank,
           linear_regression_fit |-> <<Float(slope), Float(0), One>>]) :
        sr \in 1..2, rank \in 0..1, slope \in 0..1}

NextQuoteTest ==
    \/ \E inputs \in ScannerInputs, answer \in ScannerAnswers :
          NewScanner(inputs, "Close", None, answer)
    \/ \E criterions \in QuoteCriterions : SetQuoteCriterions(criterions)
    \/ \E stats \in QuoteStats : TestQuoteCriterion(stats)

SpecQuoteTest == Init /\ [][NextQuoteTest]_vars

\* ---------------------------------------------------- quote test: property
\* the statistic of an asset satisfies the criterion stored under a key
Satisfies(key, bound, stat) ==
    IF key = "linear_regression_fit"
    THEN \A j \in 1..3 : bound[j] # None => ~RLess(stat[j], bound[j])
    ELSE IF key \in {"top_k", "bottom_k"}
    THEN stat < bound
    ELSE ~isnan(stat) /\ ~RLess(stat, bound[1]) /\ ~RLess(bound[2], stat)

SatisfiesAll(quote_criterions, stats) ==
    \A key \in DOMAIN quote_criterions.at :
        Satisfies(key, quote_criterions.at[key], stats.at[key])

\* C25: _test_quote_criterion returns True exactly when the statistics of
\* the asset satisfy every stored quote criterion, whatever the order in
\* which the criterions were set.
C25_TrueExactlyWhenAllHold ==
    (op = "_test_quote_criterion" /\ ~raised) =>
        (result <=> SatisfiesAll(scanner[1].quote_criterions, args[1]))

\* what holds of the test: its answer is that of the criterions up to and
\* including the first top_k, bottom_k or linear_regression_fit criterion
FirstDeciding(keys) ==
    IF \E i \in 1..Len(keys) :
          keys[i] \in {"top_k", "bottom_k", "linear_regression_fit"}
    THEN CHOOSE i \in 1..Len(keys) :
            /\ keys[i] \in {"top_k", "bottom_k", "linear_regression_fit"}
            /\ \A j \in 1..(i - 1) :
                  keys[j] \notin {"top_k", "bottom_k", "linear_regression_fit"}
    ELSE Len(keys)

TrueWhenLeadingCriterionsHold ==
    (op = "_test_quote_criterion" /\ ~raised) =>
        LET keys == scanner[1].quote_criterions.keys
        IN  result <=>
              \A i \in 1..FirstDeciding(keys) :
                  Satisfies(keys[i], scanner[1].quote_criterions.at[keys[i]],
                            args[1].at[keys[i]])

\* ==========================================================================
\* Part 9: the scan (analysis/scanning.py)
\*
\* A macro criterion of a string field is a tuple of the strings allowed, and
\* one of a numeric field a range; the range of a relative field ('high_52w',
\* 'low_52w') bounds the field divided by the current price.  The Scanner
\* holds a reference to its Analyzer; no step of the scan changes an
\* Analyzer, so the model stores the Analyzer itself.
\* ==========================================================================
relative_fields == <<"high_52w", "low_52w">>

\* Scanner.set_analyzer
set_analyzer(S, analyzer_) == [S EXCEPT !.analyzer = analyzer_]

\* the loop of Scanner._test_macro_criterion from the criterion 'keys' on:
\* Some(True), Some(False) or None
RECURSIVE test_macro_criterions_from(_, _, _, _, _)
test_macro_criterions_from(keys, macro_criterions, asset_macro, current_price, ignore_none) ==
    IF keys = <<>>
    THEN Some(TRUE)
    ELSE
      LET criterion == Head(keys)
          bound == macro_criterions.at[criterion]
          field == asset_macro[criterion]
          rest == test_macro_criterions_from(Tail(keys), macro_criterions,
                      asset_macro, current_price, ignore_none)
      IN  IF criterion \notin DOMAIN asset_macro \/ field[1] = "none"
          THEN IF ~ignore_none THEN None ELSE rest
          ELSE IF field[1] = "str"
          THEN IF ~\E j \in 1..Len(bound) : bound[j] = field[2]
               THEN Some(FALSE)
               ELSE rest
          ELSE IF \E j \in 1..Len(relative_fields) :
                     relative_fields[j] = criterion
          THEN IF \/ RLess(RDiv(field[2], current_price[1]), bound[1])
                  \/ RLess(bound[2], RDiv(field[2], current_price[1]))
               THEN Some(FALSE)
               ELSE rest
          ELSE IF RLess(field[2], bound[1]) \/ RLess(bound[2], field[2])
          THEN Some(FALSE)
          ELSE rest

\* Scanner._test_macro_criterion(asset_macro, current_price, ignore_none);
\* current_price is None or Some price, and the assert wants a price when a
\* relative field is among the criterions
test_macro_criterion(S, asset_macro, current_price, ignore_none) ==
    LET apply_relative_fields ==
            \E j \in 1..Len(relative_fields) :
                HasKey(S.macro_criterions, relative_fields[j])
    IN  IF current_price = None /\ apply_relative_fields
        THEN [raised |-> TRUE, value |-> "AssertionError"]
        ELSE [raised |-> FALSE,
              value |-> test_macro_criterions_from(S.macro_criterions.keys,
                            S.macro_criterions, asset_macro, current_price,
                            ignore_none)]

\* the keys of the dict analyze() returns, as its literal writes them
analysis_keys ==
    <<"sr", "mean", "recent_trend_mean", "recent_trend_std",
      "linear_regression_fit", "top_k", "bottom_k">>

\* a variant in which an asset whose macro test yields None is kept
scan_asset_none_passes(S, quotes_analysis, i, ignore_none) ==
    LET macro_criterion == test_macro_criterion(S, S.macros[i], Some(S.quotes[i].last_close), ignore_none)
        quote_criterion == test_quote_criterion(S, Dict(analysis_keys, [key \in DOMAIN quotes_analysis[1] |-> quotes_analysis[1][key][i]]))
    IN  IF quotes_analysis # None /\ \E key \in DOMAIN quotes_analysis[1] : i > Len(quotes_analysis[1][key])
        THEN [raised |-> TRUE, value |-> "IndexError"]
        ELSE IF macro_criterion.raised THEN macro_criterion
        ELSE IF quotes_analysis = None THEN [raised |-> FALSE, value |-> macro_criterion.value # Some(FALSE)]
        ELSE IF quote_criterion.raised THEN quote_criterion
        ELSE [raised |-> FALSE, value |-> quote_criterion.value /\ macro_criterion.value # Some(FALSE)]

\* one pass of the loop of scan_for_potential_assets, for the asset at
\* position i (from 1) of the symbols list: whether the asset is appended,
\* or the name of the exception raised.  quotes_analysis is None or Some
\* dict; quotes_analysis[key][i] raises IndexError when the Analyzer has
\* fewer assets than the Scanner.
scan_asset(S, quotes_analysis, i, ignore_none) ==
    LET macro == S.macros[i]
        analysis == quotes_analysis[1]
        macro_criterion ==
            test_macro_criterion(S, macro, Some(S.quotes[i].last_close),
                                 ignore_none)
    IN  IF quotes_analysis # None
             /\ \E key \in DOMAIN analysis : i > Len(analysis[key])
        THEN [raised |-> TRUE, value |-> "IndexError"]
        ELSE IF macro_criterion.raised
        THEN macro_criterion
        ELSE IF quotes_analysis = None
        THEN [raised |-> FALSE, value |-> macro_criterion.value = Some(TRUE)]
        ELSE
          CHOOSE out \in
            {IF quote_criterion.raised
             THEN quote_criterion
             ELSE [raised |-> FALSE,
                   value |-> quote_criterion.value
                                /\ macro_criterion.value = Some(TRUE)] :
               quote_criterion \in
                 {test_quote_criterion(S,
                      Dict(analysis_keys,
                           [key \in DOMAIN analysis |-> analysis[key][i]]))}} :
            TRUE

\* Scanner.scan_for_potential_assets(ignore_none): the list of (index,
\* symbol) pairs, or the name of the first exception raised ("analyze" when
\* it is analyze() that raises)
scan_for_potential_assets(S, ignore_none, build) ==
    CHOOSE out \in
      {IF quotes_analysis.raised
       THEN [raised |-> TRUE, value |-> "analyze"]
       ELSE
         CHOOSE res \in
           {IF \E i \in 1..Len(passes) : passes[i].raised
            THEN passes[CHOOSE i \in 1..Len(passes) :
                           /\ passes[i].raised
                           /\ \A j \in 1..(i - 1) : ~passes[j].raised]
            ELSE [raised |-> FALSE,
                  value |->
                    LET kept == SelectSeq([i \in 1..Len(passes) |-> i],
                                          LAMBDA i : passes[i].value)
                    IN  [n \in 1..Len(kept) |->
                            <<kept[n] - 1, S.symbols_list[kept[n]]>>]] :
              passes \in
                {[i \in 1..Len(S.symbols_list) |->
                     scan_asset(S, quotes_analysis.value, i,
                                ignore_none)]}} :
           TRUE :
         quotes_analysis \in
           {IF S.analyzer = None
            THEN [raised |-> FALSE, value |-> None]
            ELSE [raised |-> r.raised, value |-> Some(r.value)] :
               r \in {IF S.analyzer = None THEN [raised |-> FALSE]
                      ELSE analyze(S.analyzer[1], None, build)}}} : TRUE

\* ----------------------------------------------------------- scan: actions
\* scanner.set_analyzer(analyzer)
SetAnalyzer ==
    /\ scanner # None
    /\ analyzer # None
    /\ scanner' = Some(set_analyzer(scanner[1], analyzer))
    /\ op' = "set_analyzer"
    /\ args' = <<>>
    /\ raised' = FALSE
    /\ result' = None
    /\ UNCHANGED <<forecasting_vars, analyzer, cache, provider>>

\* scanner.scan_for_potential_assets(ignore_none); args holds ignore_none
\* and the SciPy build
ScanForPotentialAssets(ignore_none, build) ==
    /\ scanner # None
    /\ \E r \in {scan_for_potential_assets(scanner[1], ignore_none, build)} :
           /\ raised' = r.raised
           /\ result' = r.value
    /\ op' = "scan_for_potential_assets"
    /\ args' = <<ignore_none, build>>
    /\ UNCHANGED <<forecasting_vars, analysis_vars>>

\* ------------------------------------------------------------ scan: inputs
\* the provider has two days of "A", or none, and three days of "B": both
\* are kept, at the median length of two days
ScanAnswers == {a \in Answers : a["A"] <= 1 /\ a["B"] = 2}

\* complete quotes of two days, a risk-free asset of as many, threshold 1/4
ScanAnalyzerArgs ==
    {a \in AnalyzerArgs :
        /\ Rows(a[1]) = 2
        /\ ~HasNaN(a[1])
        /\ Len(a[2]) = 2
        /\ a[3] = Rat(1, 4)}

\* beta within [2, 3]; the sector "Technology" and a 52-week high of one to
\* three times the price
MacroCriterions ==
    {Dict(<<"beta">>, [beta |-> <<Float(2), Float(3)>>]),
     Dict(<<"sector", "high_52w">>,
          [sector |-> <<"Technology">>,
           high_52w |-> <<Float(1), Float(3)>>])}

\* the best rank and then a mean annual return within [0, 1000]; an overall
\* period return within [0, 1]
ScanQuoteCriterions ==
    {Dict(<<"top_k", "mean">>,
          [top_k |-> 1, mean |-> <<Float(0), Float(1000)>>]),
     Dict(<<"mean">>, [mean |-> <<Float(0), Float(1000)>>]),
     Dict(<<"overall_period_return">>,
          [overall_period_return |-> <<Float(0), Float(1)>>])}

NextScan ==
    \/ \E a \in ScanAnalyzerArgs, build \in SciPyBuilds :
          NewAnalyzer(a[1], a[2], a[3], a[4], build)
    \/ \E build \in SciPyBuilds : Analyze(None, build)
    \/ \E inputs \in ScannerInputs, answer \in ScanAnswers :
          NewScanner(inputs, "Close", None, answer)
    \/ SetAnalyzer
    \/ \E criterions \in MacroCriterions : SetMacroCriterions(criterions)
    \/ \E criterions \in ScanQuoteCriterions : SetQuoteCriterions(criterions)
    \/ \E ignore_none \in BOOLEAN, build \in SciPyBuilds :
          ScanForPotentialAssets(ignore_none, build)

SpecScan == Init /\ [][NextScan]_vars

\* ---------------------------------------------------------- scan: property
TheScanner == scanner[1]

\* a field the provider has no value of
Missing(asset_macro, key) ==
    key \notin DOMAIN asset_macro \/ asset_macro[key] = PyNone

\* the asset at position i satisfies the macro criterion stored under key
MacroSatisfies(S, i, key) ==
    LET bound == S.macro_criterions.at[key]
        field == S.macros[i][key]
        ratio == RDiv(field[2], S.quotes[i].last_close)
    IN  IF field[1] = "str"
        THEN \E j \in 1..Len(bound) : bound[j] = field[2]
        ELSE IF key \in {"high_52w", "low_52w"}
        THEN ~RLess(ratio, bound[1]) /\ ~RLess(bound[2], ratio)
        ELSE ~RLess(field[2], bound[1]) /\ ~RLess(bound[2], field[2])

\* the asset passes the macro criteria: every criterion holds of its field,
\* a missing field counting as passed only when ignore_none is set
PassesMacro(S, i, ignore_none) ==
    \A key \in DOMAIN S.macro_criterions.at :
        IF Missing(S.macros[i], key) THEN ignore_none
        ELSE MacroSatisfies(S, i, key)

\* the asset passes the quote test on its entries of the analysis
PassesQuote(S, i, analysis) ==
    test_quote_criterion(S,
        Dict(analysis_keys, [key \in DOMAIN analysis |-> analysis[key][i]])
    ).value = TRUE

\* the (index, symbol) pairs of the positions 'kept', indices from 0
Pairs(S, kept) ==
    [n \in 1..Len(kept) |-> <<kept[n] - 1, S.symbols_list[kept[n]]>>]

Positions(S) == [i \in 1..Len(S.symbols_list) |-> i]

C30_AcceptedCriterionIsAnalysisKey ==
    /\ (op = "analyze" /\ ~raised) =>
          \A key \in viable_quote_criterions : key \in DOMAIN result
    /\ (op = "scan_for_potential_assets" /\ TheScanner.analyzer # None
          /\ raised) => result # "KeyError"

\* the viable quote criterions analyze() has no entry of
NotAnalyzed ==
    {key \in viable_quote_criterions :
        \A n \in 1..Len(analysis_keys) : analysis_keys[n] # key}

\* what holds of the scan: it raises KeyError exactly when the quote test of
\* some asset reaches a stored criterion analyze() has no entry of
KeyErrorOnlyWhenNotAnalyzed ==
    (op = "scan_for_potential_assets" /\ raised /\ result = "KeyError") =>
        \E key \in NotAnalyzed : HasKey(TheScanner.quote_criterions, key)

\* ==========================================================================
\* Part 10: forecast and the caller's array (analysis/forecasting.py,
\* visualizations/plot_assets.py)
\* ==========================================================================

\* C29: forecast leaves the array of the caller as it was, whether the call
\* returns or raises, remove_mean or not.
C29_ForecastLeavesSeries ==
    op = "forecast" => time_series = args[1]

\* what holds of the array: without remove_mean it is as it was, and with
\* remove_mean every sample has lost the mean of the array, whether the call
\* returned or raised
SeriesLosesItsMean ==
    op = "forecast" =>
        time_series =
            IF TheForecaster.remove_mean
            THEN [i \in 1..Len(args[1]) |->
                     RSub(args[1][i], np_mean(args[1]))]
            ELSE args[1]

\* ------------------------------------------------- forecast, called again
\* the caller calls forecaster.forecast once more on the array object of
\* the forecast call before, with the same prediction range; args holds the
\* array as this call found it, the range, what the call before returned
\* (None when it raised) and the mean the Forecaster held
ForecastAgain(fit_ok) ==
    /\ UNCHANGED analysis_vars
    /\ forecaster # None
    /\ op = "forecast"
    /\ fit_ok \in FitOutcomes(Unfit)
    /\ \E r \in {forecast(forecaster[1], smoother, time_series, args[2],
                          args[3], fit_ok)} :
           /\ forecaster' = Some(r.F)
           /\ smoother' = r.S
           /\ time_series' = r.ts
           /\ raised' = r.raised
           /\ result' = r.value
           /\ fits' = IF r.fitted THEN Min(fits + 1, MaxFits) ELSE fits
    /\ op' = "forecast"
    /\ args' = <<time_series, args[2], args[3],
                 IF raised THEN None ELSE Some(result), forecaster[1].mean>>
    /\ chain' = NoChain

NextForecastTwice ==
    \/ \E a \in SmootherArgs : NewSmoother(a[1], a[2], a[3])
    \/ \E a \in ForecasterArgs : NewForecaster(a[1], a[2], a[3], a[4])
    \/ \E arr \in Series, rg \in Ranges, fit_ok \in BOOLEAN :
          Forecast(arr, rg[1], rg[2], fit_ok)
    \/ \E fit_ok \in BOOLEAN : ForecastAgain(fit_ok)

SpecForecastTwice == Init /\ [][NextForecastTwice]_vars

\* the last call was a forecast on the array object of a forecast call that
\* returned, and returned as well
ForecastTwice == op = "forecast" /\ Len(args) = 5 /\ args[4] # None /\ ~raised

\* C28: of two consecutive forecast calls on the same array object, with no
\* reset between them, the second returns what the first returned, for
\* every configuration of the Forecaster, remove_mean included.
C28_SameForecastTwice ==
    ForecastTwice => result = args[4][1]

\* what holds of the two calls: without remove_mean the forecasts are equal;
\* with remove_mean the second forecast is the first less the mean the
\* first call took off the array
SecondForecastLosesTheMean ==
    ForecastTwice =>
        /\ Len(result) = Len(args[4][1])
        /\ \A k \in 1..Len(result) :
              /\ result[k].sym = args[4][1][k].sym
              /\ result[k].off =
                    IF TheForecaster.remove_mean
                    THEN RSub(args[4][1][k].off, args[5])
                    ELSE args[4][1][k].off

\* ----------------------------------------------------------- plot_forecasts
\* the attributes an instance of Forecaster has: those of its __init__ and
\* the methods and properties of the class (ABC adds none the loop asks for)
Forecaster_attributes ==
    {"_method", "_forecast_horizon", "_smoother", "_arima_orders",
     "_sarimax_orders", "_sarimax_seasonal_order", "_arima_prediction_type",
     "_remove_mean", "_arima_model", "_sarimax_model", "_mean",
     "_smooth_forecast_exp", "_smooth_forecast_poly", "_smooth_forecast",
     "_arima_forecast", "_sarimax_forecast", "forecast", "__call__",
     "description", "forecast_horizon", "reset"}

\* plot_forecasts(time_series, window_len, forecaster, ..., smoother): the
\* Smoother after the call, whether the call raised, and the forecasts of
\* the windows (the y_axes less their first sample) or the name of the
\* exception.  With a smoother the series is smoothed for the first plot.
\* The loop runs len(time_series) - window_len times, and each pass starts
\* with forecaster.reset_smoother(), an attribute a Forecaster does not
\* have: the first pass raises AttributeError before it forecasts.
plot_forecasts(F, S, ts, window_len, with_smoother, fit_ok) ==
    CHOOSE out \in
      {IF first.raised
       THEN [S |-> first.S, raised |-> TRUE, value |-> "smooth"]
       ELSE IF Len(ts) - window_len <= 0
       THEN [S |-> first.S, raised |-> FALSE, value |-> <<>>]
       ELSE IF "reset_smoother" \notin Forecaster_attributes
       THEN [S |-> first.S, raised |-> TRUE, value |-> "AttributeError"]
       ELSE [S |-> first.S, raised |-> TRUE, value |-> "reset_smoother"] :
         first \in {IF with_smoother
                    THEN [S |-> Some(smooth(S[1], ts, fit_ok).S),
                          raised |-> smooth(S[1], ts, fit_ok).raised]
                    ELSE [S |-> S, raised |-> FALSE]}} : TRUE

\* the caller calls plot_forecasts on a series, with its Forecaster and with
\* its Smoother or none; args holds the series, the window length and
\* whether a Smoother is passed
PlotForecasts(ts, window_len, with_smoother, fit_ok) ==
    /\ UNCHANGED analysis_vars
    /\ forecaster # None
    /\ with_smoother => smoother # None
    /\ fit_ok \in FitOutcomes(with_smoother /\ smoother[1].method # "avg")
    /\ \E r \in {plot_forecasts(forecaster[1], smoother, ts, window_len,
                                with_smoother, fit_ok)} :
           /\ smoother' = r.S
           /\ raised' = r.raised
           /\ result' = r.value
    /\ op' = "plot_forecasts"
    /\ args' = <<ts, window_len, with_smoother>>
    /\ time_series' = ts
    /\ chain' = NoChain
    /\ UNCHANGED <<forecaster, fits>>

NextPlot ==
    \/ \E a \in SmootherArgs : NewSmoother(a[1], a[2], a[3])
    \/ \E a \in ForecasterArgs : NewForecaster(a[1], a[2], a[3], a[4])
    \/ \E ts \in Series, window_len \in 1..MaxLen, with_smoother \in BOOLEAN,
          fit_ok \in BOOLEAN :
          PlotForecasts(ts, window_len, with_smoother, fit_ok)

SpecPlot == Init /\ [][NextPlot]_vars

\* the windows of the loop of plot_forecasts
Windows == IF Len(args[1]) > args[2] THEN Len(args[1]) - args[2] ELSE 0

\* C27: the loop of plot_forecasts clears the Forecaster before each window
\* and completes: a call whose first plot succeeded returns with one
\* forecast for every window of the series.
C27_LoopForecastsEveryWindow ==
    (op = "plot_forecasts" /\ (raised => result # "smooth")) =>
        /\ ~raised
        /\ Len(result) = Windows

\* what holds of the loop: with at least one window it raises
\* AttributeError in its first pass, and with none it returns no forecast
LoopRaisesInFirstWindow ==
    (op = "plot_forecasts" /\ (raised => result # "smooth")) =>
        IF Windows >= 1 THEN raised /\ result = "AttributeError"
        ELSE ~raised /\ result = <<>>

====
